---------------------------- MODULE Spec2Model ----------------------------
(***************************************************************************)
(* A model of the animation/export core of rig-and-animate-3d:             *)
(*   - AnimationNameResolver   (src/src/utils/animationNameResolver.ts)    *)
(*   - useAnimationRegistry and its retargetAnimation                      *)
(*                             (src/src/hooks/useAnimationRegistry.ts)     *)
(*   - SceneProcessor          (src/unnamed/part_004)                      *)
(*   - FBXExporter's binary writer (src/src/utils/fbxExporter.ts)          *)
(*                                                                         *)
(* A JavaScript string is modelled as the sequence of its UTF-16 code      *)
(* units, each unit a one-character TLA+ string ("W") or, outside          *)
(* printable ASCII, the token "U+XXXX".  Length, trim, startsWith,         *)
(* substring, includes and toLowerCase are computed on that sequence.      *)
(***************************************************************************)
EXTENDS Integers, Sequences, FiniteSets, TLC

VARIABLES
    usedNames,      \* AnimationNameResolver.usedNames (the internal Set)
    existingNames,  \* a Set owned by the caller and passed as existingNames
    nameCalls,      \* the generateUniqueName calls made so far, oldest first
    animations,     \* the clip list handed to processAnimationsForExport
    procStatus,     \* "none" before the call, then how the call ended
    procClips,      \* the clip list processAnimationsForExport returned
    fbxNodes,       \* the node list createValidFBXBinary writes
    wrStatus,       \* "none" before the call, then how the call ended
    wrBuffer,       \* the bytes createValidFBXBinary returned
    wrVariant,      \* which revision of the 'L' case runs: "floor" or "shift"
    revision,       \* which revision of useAnimationRegistry runs (1 or 2)
    rtInput,        \* the arguments of one retargetAnimation call
    rtResult,       \* empty before that call, then what it did and returned
    registryItems,  \* the hook's state: the list of registry items
    clipObjects,    \* the clip objects, indexed by reference
    now,            \* the last value Date.now() returned
    opCount,        \* the number of registry operations called
    lastOp,         \* the last registry operation and the state before it
    objects,        \* the Object3D objects, indexed by reference
    geometries,     \* the BufferGeometry objects, indexed by reference
    materials,      \* the Material objects, indexed by reference
    modelScene,     \* the root of the scene on display, 0 for no scene
    allAnimations,  \* the animation list given to the validator and exporter
    validation,     \* empty, or the call of the ExportValidator and its result
    modelUrl,       \* whether ModelExporter has a model url
    exPc,           \* where the run of exportModel stands
    isExporting,    \* ModelExporter's isExporting state
    exTrace,        \* what the run called and reported so far, in order
    exportScene,    \* the root of the scene createExportScene returned, or 0
    exportAnimations, \* the clips under export, once made
    liveBefore      \* empty, or the scene and the clips as the run found them

nameVars == <<usedNames, existingNames, nameCalls>>

procVars == <<animations, procStatus, procClips>>

writerVars == <<fbxNodes, wrStatus, wrBuffer, wrVariant>>

retargetVars == <<rtInput, rtResult>>

registryVars == <<registryItems, clipObjects, now, opCount, lastOp>>

hookVars ==
    <<revision, rtInput, rtResult, registryItems, clipObjects, now, opCount, lastOp>>

sceneVars == <<objects, geometries, materials, modelScene, allAnimations>>

exportVars ==
    <<modelUrl, exPc, isExporting, exTrace, exportScene, exportAnimations,
      liveBefore>>

pipelineVars ==
    << objects, geometries, materials, modelScene, allAnimations, validation,
       modelUrl, exPc, isExporting, exTrace, exportScene, exportAnimations,
       liveBefore >>

vars ==
    << usedNames, existingNames, nameCalls, animations, procStatus, procClips,
       fbxNodes, wrStatus, wrBuffer, wrVariant, revision, rtInput, rtResult,
       registryItems, clipObjects, now, opCount, lastOp,
       objects, geometries, materials, modelScene, allAnimations, validation,
       modelUrl, exPc, isExporting, exTrace, exportScene, exportAnimations,
       liveBefore >>

-----------------------------------------------------------------------------
(* JavaScript strings *)

\* String.prototype.trim removes leading and trailing white space.
WhiteSpace == {" ", "\t", "\n"}

RECURSIVE TrimStart(_)
TrimStart(s) ==
    IF s # <<>> /\ Head(s) \in WhiteSpace THEN TrimStart(Tail(s)) ELSE s

RECURSIVE TrimEnd(_)
TrimEnd(s) ==
    IF s # <<>> /\ s[Len(s)] \in WhiteSpace
    THEN TrimEnd(SubSeq(s, 1, Len(s) - 1))
    ELSE s

Trim(s) == TrimEnd(TrimStart(s))

StartsWith(s, p) == Len(p) <= Len(s) /\ SubSeq(s, 1, Len(p)) = p

EndsWith(s, p) ==
    Len(p) <= Len(s) /\ SubSeq(s, Len(s) - Len(p) + 1, Len(s)) = p

\* s.substring(from) and s.substring(0, n); a negative or NaN bound counts
\* as 0 and a bound past the end as the length.
Clamp(n, len) == IF n < 0 THEN 0 ELSE IF n > len THEN len ELSE n

SubstringFrom(s, from) == SubSeq(s, Clamp(from, Len(s)) + 1, Len(s))

SubstringTo(s, n) == SubSeq(s, 1, Clamp(n, Len(s)))

Rep(c, n) == [i \in 1..n |-> c]

\* Template-literal conversion of a non-negative integer, `${counter}`.
Digit(d) == <<"0", "1", "2", "3", "4", "5", "6", "7", "8", "9">>[d + 1]

RECURSIVE NumberToString(_)
NumberToString(n) ==
    IF n < 10 THEN <<Digit(n)>>
    ELSE NumberToString(n \div 10) \o <<Digit(n % 10)>>

-----------------------------------------------------------------------------
(* AnimationNameResolver *)

originalPrefix == <<"U+D83C", "U+DFAC", " ">>

importedPrefix ==
    <<"U+D83C", "U+DFAD", " ", "M", "i", "x", "a", "m", "o", ":", " ">>

maxNameLength == 50

unwantedPrefixes ==
    << <<"m", "i", "x", "a", "m", "o", "r", "i", "g", ":">>,
       <<"m", "i", "x", "a", "m", "o", ":">>,
       <<"A", "r", "m", "a", "t", "u", "r", "e", "|">>,
       <<"S", "c", "e", "n", "e", "|">>,
       <<"R", "o", "o", "t", "N", "o", "d", "e", "|">> >>

\* nameImprovements: the English clip names that are replaced, with their
\* replacements (Arabic words, one token per code unit).
nameImprovements ==
    { << <<"W", "a", "l", "k", "i", "n", "g">>,
         <<"U+0627", "U+0644", "U+0645", "U+0634", "U+064A">> >>,
      << <<"R", "u", "n", "n", "i", "n", "g">>,
         <<"U+0627", "U+0644", "U+062C", "U+0631", "U+064A">> >>,
      << <<"I", "d", "l", "e">>,
         <<"U+0627", "U+0644", "U+0648", "U+0642", "U+0648", "U+0641">> >>,
      << <<"J", "u", "m", "p">>,
         <<"U+0627", "U+0644", "U+0642", "U+0641", "U+0632">> >>,
      << <<"D", "a", "n", "c", "e">>,
         <<"U+0627", "U+0644", "U+0631", "U+0642", "U+0635">> >>,
      << <<"W", "a", "v", "e">>,
         <<"U+0627", "U+0644", "U+062A", "U+0644", "U+0648", "U+064A", "U+062D">> >>,
      << <<"S", "i", "t", "t", "i", "n", "g">>,
         <<"U+0627", "U+0644", "U+062C", "U+0644", "U+0648", "U+0633">> >>,
      << <<"S", "t", "a", "n", "d", "i", "n", "g">>,
         <<"U+0627", "U+0644", "U+0648", "U+0642", "U+0648", "U+0641">> >>,
      << <<"C", "l", "a", "p", "p", "i", "n", "g">>,
         <<"U+0627", "U+0644", "U+062A", "U+0635", "U+0641", "U+064A", "U+0642">> >> }

\* The for loop over unwantedPrefixes: the first prefix the name starts with
\* is removed, and the loop breaks.
RECURSIVE StripUnwantedPrefix(_, _)
StripUnwantedPrefix(cleanName, i) ==
    IF i > Len(unwantedPrefixes) THEN cleanName
    ELSE IF StartsWith(cleanName, unwantedPrefixes[i])
         THEN SubstringFrom(cleanName, Len(unwantedPrefixes[i]))
         ELSE StripUnwantedPrefix(cleanName, i + 1)

cleanAnimationName(name) ==
    LET cleanName == StripUnwantedPrefix(Trim(name), 1)
        improved  == {p \in nameImprovements : p[1] = cleanName}
    IN  IF improved # {} THEN (CHOOSE p \in improved : TRUE)[2] ELSE cleanName

\* prefix + cleanName, cut to maxNameLength with "..." when longer.
ProposedName(baseName, isImported) ==
    LET cleanName == cleanAnimationName(baseName)
        prefix    == IF isImported THEN importedPrefix ELSE originalPrefix
        proposed  == prefix \o cleanName
    IN  IF Len(proposed) > maxNameLength
        THEN LET maxCleanLength == maxNameLength - Len(prefix) - 3
             IN  prefix \o SubstringTo(cleanName, maxCleanLength)
                        \o <<".", ".", ".">>
        ELSE proposed

\* `${proposedName} (${counter})` for imported, `${proposedName} ${counter}`
\* for original clips.
NumberedName(proposedName, isImported, counter) ==
    IF isImported
    THEN proposedName \o <<" ", "(">> \o NumberToString(counter) \o <<")">>
    ELSE proposedName \o <<" ">> \o NumberToString(counter)

\* The do-while loop stops as soon as the counter reaches this value.
CounterLimit == 100

\* do { uniqueName = ...counter...; counter++ }
\* while (names.has(uniqueName) && counter < 100)
RECURSIVE ConflictLoop(_, _, _, _)
ConflictLoop(proposedName, isImported, names, counter) ==
    LET uniqueName == NumberedName(proposedName, isImported, counter)
        next       == counter + 1
    IN  IF uniqueName \in names /\ next < CounterLimit
        THEN ConflictLoop(proposedName, isImported, names, next)
        ELSE uniqueName

\* The name generateUniqueName returns, given the content of the Set in use.
UniqueNameFor(baseName, isImported, names) ==
    LET proposedName == ProposedName(baseName, isImported)
    IN  IF proposedName \notin names
        THEN proposedName
        ELSE ConflictLoop(proposedName, isImported, names, 1)

-----------------------------------------------------------------------------
(* The inputs of the name resolver *)

\* The length of the long base name: with either prefix it passes
\* maxNameLength.
LongLen == 48

\* The number of generateUniqueName calls in one run.
MaxCalls == 2

Walk == <<"W", "a", "l", "k">>

Idle == <<"I", "d", "l", "e">>

BaseNames ==
    { Walk,
      <<" ">> \o Walk \o <<" ">>,
      unwantedPrefixes[1] \o Walk,
      Idle,
      Rep("a", LongLen) }

\* How many of the numbered variants are taken in an initial Set.
TakenCounts == {0, 1, CounterLimit - 2, CounterLimit - 1}

Taken(baseName, isImported, k) ==
    LET p == ProposedName(baseName, isImported)
    IN  {p} \cup {NumberedName(p, isImported, j) : j \in 1..k}

\* Initial contents of the caller's Set: nothing, or a name with a run of its
\* numbered variants, with or without the unnumbered name and variant 1.
InitialNameSets ==
    {{}} \cup
    UNION { { Taken(c[1], c[2], k) \ h :
                k \in TakenCounts,
                h \in SUBSET { ProposedName(c[1], c[2]),
                               NumberedName(ProposedName(c[1], c[2]), c[2], 1) } } :
            c \in {Walk, Idle} \X BOOLEAN }

NamesIdle ==
    /\ usedNames = {}
    /\ existingNames = {}
    /\ nameCalls = <<>>

NamesInit ==
    /\ usedNames = {}
    /\ existingNames \in InitialNameSets
    /\ nameCalls = <<>>

\* generateUniqueName(baseName, isImported, existingNames?): the returned
\* name is added to the Set in use: existingNames when given, else the
\* resolver's own usedNames.
GenerateUniqueName(baseName, isImported, given) ==
    LET names      == IF given THEN existingNames ELSE usedNames
        uniqueName == UniqueNameFor(baseName, isImported, names)
    IN  /\ Len(nameCalls) < MaxCalls
        /\ IF given
           THEN /\ existingNames' = names \cup {uniqueName}
                /\ UNCHANGED usedNames
           ELSE /\ usedNames' = names \cup {uniqueName}
                /\ UNCHANGED existingNames
        /\ nameCalls' = Append(nameCalls,
               [ baseName |-> baseName, isImported |-> isImported,
                 given |-> given, before |-> names, result |-> uniqueName ])
        /\ UNCHANGED <<procVars, writerVars, hookVars, pipelineVars>>

NamesNext ==
    \E b \in BaseNames, i \in BOOLEAN, g \in BOOLEAN : GenerateUniqueName(b, i, g)

-----------------------------------------------------------------------------
(* Clips and tracks (THREE.AnimationClip, THREE.KeyframeTrack)             *)
(*                                                                         *)
(* A track is [name, times, values]: times and values are the two arrays.  *)
(* A clip is [name, tracks].  The three library methods the code calls     *)
(* are modelled by what they do:                                           *)
(*   KeyframeTrack.getValueSize() returns values.length / times.length;    *)
(*   KeyframeTrack's constructor, which clone() runs, throws when the      *)
(*     times array is empty;                                               *)
(*   KeyframeTrack.optimize() drops the interior keys equal to both        *)
(*     neighbours, stepping through the values with                        *)
(*     for (j = 0; j !== stride; ++j), which does not end when the stride  *)
(*     is not a whole number.                                              *)
(***************************************************************************)

\* track.getValueSize(): the quotient values.length / times.length, kept as
\* a fraction.  For the array lengths used here the double-precision
\* product times.length * (values.length / times.length) is exact.
getValueSize(track) == [num |-> Len(track.values), den |-> Len(track.times)]

\* times.length * track.getValueSize(), as a fraction.
ExpectedValueCount(track) ==
    [ num |-> Len(track.times) * getValueSize(track).num,
      den |-> getValueSize(track).den ]

\* The stride optimize() steps with is a whole number.
WholeStride(track) ==
    getValueSize(track).num % getValueSize(track).den = 0

\* optimize(): keep(i) for an interior key i (0-based), linear interpolation.
KeepKey(track, stride, i) ==
    LET t(k) == track.times[k + 1]
        v(k) == track.values[k + 1]
    IN  /\ t(i) # t(i + 1)
        /\ (i # 1 \/ t(i) # t(0))
        /\ \E j \in 0..(stride - 1) :
              \/ v(i * stride + j) # v((i - 1) * stride + j)
              \/ v(i * stride + j) # v((i + 1) * stride + j)

RECURSIVE KeptKeys(_, _, _)
KeptKeys(track, stride, i) ==
    LET lastIndex == Len(track.times) - 1
    IN  IF i >= lastIndex THEN (IF lastIndex > 0 THEN <<lastIndex>> ELSE <<>>)
        ELSE (IF KeepKey(track, stride, i) THEN <<i>> ELSE <<>>)
             \o KeptKeys(track, stride, i + 1)

RECURSIVE GatherValues(_, _, _)
GatherValues(values, stride, keys) ==
    IF keys = <<>> THEN <<>>
    ELSE SubSeq(values, Head(keys) * stride + 1, (Head(keys) + 1) * stride)
         \o GatherValues(values, stride, Tail(keys))

\* track.optimize() on a track with at least one key and a whole stride.
OptimizeTrack(track) ==
    LET stride == Len(track.values) \div Len(track.times)
        keys   == <<0>> \o KeptKeys(track, stride, 1)
    IN  [ track EXCEPT
            !.times  = [k \in 1..Len(keys) |-> track.times[keys[k] + 1]],
            !.values = GatherValues(track.values, stride, keys) ]

\* optimize() returns: a single key is left alone, more keys need a whole
\* stride for the copy loop of the last key to end.
OptimizeReturns(track) == Len(track.times) <= 1 \/ WholeStride(track)

\* track.clone() returns (the constructor accepts the arrays).
CloneReturns(track) == Len(track.times) > 0

-----------------------------------------------------------------------------
(* SceneProcessor.processAnimationsForExport *)

AnimationUnderscore ==
    <<"A", "n", "i", "m", "a", "t", "i", "o", "n", "_">>

\* The name of the processed clip: `Animation_${index + 1}` when blank.
ProcessedClipName(clip, index) ==
    IF clip.name = <<>> \/ Trim(clip.name) = <<>>
    THEN AnimationUnderscore \o NumberToString(index + 1)
    ELSE clip.name

\* The filter callback's verdict on one track of the cloned clip.
KeepTrack(track) ==
    /\ track.name # <<>>
    /\ Len(track.times) # 0
    /\ LET expected == ExpectedValueCount(track)
       IN  \/ Len(track.values) * expected.den = expected.num
           \/ Len(track.values) * expected.den > expected.num

\* The track the filter callback leaves behind: values longer than expected
\* are sliced to the expected count.
TrimTrack(track) ==
    LET expected == ExpectedValueCount(track)
    IN  IF /\ Len(track.values) * expected.den # expected.num
           /\ Len(track.values) * expected.den > expected.num
        THEN [track EXCEPT !.values =
                 SubstringTo(track.values, expected.num \div expected.den)]
        ELSE track

FilterTracks(tracks) ==
    LET kept == SelectSeq(tracks, KeepTrack)
    IN  [k \in 1..Len(kept) |-> TrimTrack(kept[k])]

\* One call of the map callback: how it ends, and the clip it yields.
ProcessClip(clip, index) ==
    IF \E k \in 1..Len(clip.tracks) : ~CloneReturns(clip.tracks[k])
    THEN [status |-> "threw", clip |-> clip]
    ELSE LET filtered == FilterTracks(clip.tracks)
         IN  IF \E k \in 1..Len(filtered) : ~OptimizeReturns(filtered[k])
             THEN [status |-> "diverged", clip |-> clip]
             ELSE [ status |-> "returned",
                    clip |-> [ name   |-> ProcessedClipName(clip, index),
                               tracks |-> [k \in 1..Len(filtered) |->
                                              OptimizeTrack(filtered[k])] ] ]

\* A result that keeps the clips left without tracks.
EveryClip(done) == done

\* .filter(clip => clip.tracks.length > 0)
ClipsWithTracks(done) == SelectSeq(done, LAMBDA c : Len(c.tracks) > 0)

\* animations.map(...) from clip `index` (0-based) on, then the final filter
\* on tracks.length > 0.  The first clip whose processing does not return
\* ends the whole call.
RECURSIVE ProcessFrom(_, _, _)
ProcessFrom(clips, index, done) ==
    IF index >= Len(clips)
    THEN [status |-> "returned", clips |-> ClipsWithTracks(done)]
    ELSE LET r == ProcessClip(clips[index + 1], index)
         IN  IF r.status = "returned"
             THEN ProcessFrom(clips, index + 1, Append(done, r.clip))
             ELSE [status |-> r.status, clips |-> <<>>]

processAnimationsForExport(clips) == ProcessFrom(clips, 0, <<>>)

-----------------------------------------------------------------------------
(* The inputs of processAnimationsForExport *)

\* The most keys a generated track has.
MaxKeys == 3

\* The most tracks a generated clip has.
MaxTracks == 2

HipsPosition ==
    <<"H", "i", "p", "s", ".", "p", "o", "s", "i", "t", "i", "o", "n">>

\* The number of values per key of a track, from the property its name
\* ends with: a quaternion has 4 components, a position or a scale 3, any
\* other property 1.
componentCount(track) ==
    IF EndsWith(track.name, <<".", "q", "u", "a", "t", "e", "r", "n", "i", "o", "n">>)
    THEN 4
    ELSE IF \/ EndsWith(track.name, <<".", "p", "o", "s", "i", "t", "i", "o", "n">>)
            \/ EndsWith(track.name, <<".", "s", "c", "a", "l", "e">>)
         THEN 3
         ELSE 1

\* A track with n keys at times 0, 1, ... and m values: all values equal
\* (flat), or all different.
MakeTrack(name, n, m, flat) ==
    [ name   |-> name,
      times  |-> [k \in 1..n |-> k - 1],
      values |-> [k \in 1..m |-> IF flat THEN 0 ELSE k] ]

\* Position tracks with up to MaxKeys keys whose values array is one short
\* of, equal to, or one longer than 3 per key, or holds 2 per key.
GeneratedTracks ==
    UNION { { MakeTrack(HipsPosition, n, m, flat) :
                m \in {3 * n - 1, 3 * n, 3 * n + 1, 2 * n} \cap Nat,
                flat \in BOOLEAN } :
            n \in 0..MaxKeys }

\* The tracks of the scenario: 10 keys with 29, 30 and 31 values.
ScenarioTracks == { MakeTrack(HipsPosition, 10, m, TRUE) : m \in {29, 30, 31} }

InputTracks ==
    GeneratedTracks \cup ScenarioTracks \cup {MakeTrack(<<>>, 1, 3, TRUE)}

RECURSIVE SeqsUpTo(_, _)
SeqsUpTo(S, n) ==
    IF n = 0 THEN {<<>>}
    ELSE LET shorter == SeqsUpTo(S, n - 1)
         IN  shorter \cup {Append(q, x) : q \in shorter, x \in S}

Run == <<"R", "u", "n">>

InputClips ==
    { [name |-> nm, tracks |-> ts] :
        nm \in {Run, <<>>, <<" ">>}, ts \in SeqsUpTo(InputTracks, MaxTracks) }

\* A second clip for the lists of two: a sound clip, and one with no track.
SecondClips ==
    { [name |-> Walk, tracks |-> <<MakeTrack(HipsPosition, 2, 6, FALSE)>>],
      [name |-> Idle, tracks |-> <<>>] }

InputAnimations ==
    {<<>>} \cup {<<c>> : c \in InputClips}
           \cup {<<c, d>> : c \in InputClips, d \in SecondClips}
           \cup {<<d, c>> : c \in InputClips, d \in SecondClips}

ProcIdle ==
    /\ animations = <<>>
    /\ procStatus = "none"
    /\ procClips = <<>>

ProcInit ==
    /\ animations \in InputAnimations
    /\ procStatus = "none"
    /\ procClips = <<>>

\* The call SceneProcessor.processAnimationsForExport(animations).  The
\* clips are cloned first, so the caller's list is left as it was.
ProcessAnimations ==
    /\ procStatus = "none"
    /\ LET r == processAnimationsForExport(animations)
       IN  /\ procStatus' = r.status
           /\ procClips' = r.clips
    /\ UNCHANGED <<animations, nameVars, writerVars, hookVars, pipelineVars>>

ProcNext == ProcessAnimations

-----------------------------------------------------------------------------
(* Bytes: DataView over the export ArrayBuffer                             *)
(*                                                                         *)
(* The buffer is the sequence of its bytes up to the highest one written;  *)
(* offset k is element k + 1, and a byte never written is 0, as in a fresh *)
(* ArrayBuffer.                                                            *)
(***************************************************************************)

\* Printable ASCII, code 32 first; the quote, the backslash and the backtick
\* are written as tokens.
AsciiTable ==
    <<
       " ", "!", "U+0022", "#", "$", "%", "&", "'", "(", ")", "*", "+",
       ",", "-", ".", "/", "0", "1", "2", "3", "4", "5", "6", "7",
       "8", "9", ":", ";", "<", "=", ">", "?", "@", "A", "B", "C",
       "D", "E", "F", "G", "H", "I", "J", "K", "L", "M", "N", "O",
       "P", "Q", "R", "S", "T", "U", "V", "W", "X", "Y", "Z", "[",
       "U+005C", "]", "^", "_", "U+0060", "a", "b", "c", "d", "e", "f", "g",
       "h", "i", "j", "k", "l", "m", "n", "o", "p", "q", "r", "s",
       "t", "u", "v", "w", "x", "y", "z", "{", "|", "}", "~"
    >>

\* The codes of the other code units in use.
TokenCodes ==
    { <<"U+0000", 0>>, <<"U+001A", 26>>, <<"\t", 9>>, <<"\n", 10>>,
      <<"U+D83C", 55356>>, <<"U+DFAC", 57260>>, <<"U+DFAD", 57261>>,
      <<"U+0645", 1605>>, <<"U+0634", 1588>>, <<"U+0627", 1575>>,
      <<"U+0644", 1604>>, <<"U+064A", 1610>> }

\* str.charCodeAt(i) for the code unit c.
CharCode(c) ==
    IF \E k \in 1..Len(AsciiTable) : AsciiTable[k] = c
    THEN 31 + (CHOOSE k \in 1..Len(AsciiTable) : AsciiTable[k] = c)
    ELSE (CHOOSE p \in TokenCodes : p[1] = c)[2]

\* The little-endian bytes of the low 8 * n bits of the integer v (two's
\* complement for a negative v): \div rounds down and % is never negative.
RECURSIVE LittleEndian(_, _)
LittleEndian(v, n) ==
    IF n = 0 THEN <<>> ELSE <<v % 256>> \o LittleEndian(v \div 256, n - 1)

RECURSIVE Log2Floor(_)
Log2Floor(x) == IF x < 2 THEN 0 ELSE 1 + Log2Floor(x \div 2)

RECURSIVE Pow2(_)
Pow2(e) == IF e = 0 THEN 1 ELSE 2 * Pow2(e - 1)

\* The IEEE 754 double of the integer x, |x| < 2^20, little-endian:
\* sign, 11-bit exponent, and the top 20 bits of the fraction (the other 32
\* are 0 for such an x).
Float64Bytes(x) ==
    IF x = 0 THEN <<0, 0, 0, 0, 0, 0, 0, 0>>
    ELSE LET a     == IF x < 0 THEN -x ELSE x
             e     == Log2Floor(a)
             expo  == e + 1023
             frac  == (a - Pow2(e)) * Pow2(20 - e)
             sign  == IF x < 0 THEN 128 ELSE 0
         IN  << 0, 0, 0, 0, frac % 256, (frac \div 256) % 256,
                (expo % 16) * 16 + frac \div 65536, sign + expo \div 16 >>

\* new ArrayBuffer(bufferSize): 2 * 1024 * 1024 bytes.
bufferSize == 2097152

\* The buffer with `bytes` stored from offset pos on.  A view is the
\* buffer's bytes up to the last one a store made differ from the 0 the
\* ArrayBuffer starts with, or further: the bytes after the view's end are 0,
\* and zeros stored there leave the view as it is.
Poke(view, pos, bytes) ==
    IF pos >= Len(view) /\ \A i \in 1..Len(bytes) : bytes[i] = 0 THEN view
    ELSE LET padded == IF Len(view) < pos
                       THEN view \o Rep(0, pos - Len(view))
                       ELSE view
         IN  SubSeq(padded, 1, pos) \o bytes
                 \o SubSeq(padded, pos + Len(bytes) + 1, Len(padded))

\* A DataView store at pos: a RangeError when it does not fit the buffer.
\* A writer state is [view, offset, status]; once status is "threw" the
\* exception is on its way out and nothing more is written.
Store(st, pos, bytes) ==
    IF st.status # "ok" THEN st
    ELSE IF pos + Len(bytes) > bufferSize THEN [st EXCEPT !.status = "threw"]
    ELSE [st EXCEPT !.view = Poke(st.view, pos, bytes)]

Advance(st, n) == [st EXCEPT !.offset = st.offset + n]

\* view.setUint8(offset++, str.charCodeAt(i)) for every i.
RECURSIVE WriteChars(_, _)
WriteChars(st, str) ==
    IF str = <<>> \/ st.status # "ok" THEN st
    ELSE WriteChars(Advance(Store(st, st.offset, <<CharCode(Head(str)) % 256>>), 1),
                    Tail(str))

\* The byte at offset pos of the returned buffer [bytes, length]: the bytes
\* after the last one kept are 0.
ByteAt(buffer, pos) ==
    IF pos < Len(buffer.bytes) THEN buffer.bytes[pos + 1] ELSE 0

\* The unsigned value of the 4 little-endian bytes at pos.
U32At(buffer, pos) ==
    ByteAt(buffer, pos) + 256 * ByteAt(buffer, pos + 1)
        + 65536 * ByteAt(buffer, pos + 2) + 16777216 * ByteAt(buffer, pos + 3)

-----------------------------------------------------------------------------
(* FBXExporter.writePropertyToBinary and writeNodeToBinary                 *)
(*                                                                         *)
(* A node is [name, properties, children]; a property is [type, value]     *)
(* with type one of "S", "I", "L", "D", "d", "i".  A double is an integer  *)
(* of magnitude below 2^20, an 'L' value an integer of magnitude below     *)
(* 2^31.  The value of a 'd' property is an array of doubles, or the       *)
(* record has the field length in place of value and stands for a          *)
(* Float64Array of that length, which holds zeros.                         *)
(***************************************************************************)

\* prop.value.length
ArrayLength(prop) ==
    IF "value" \in DOMAIN prop THEN Len(prop.value) ELSE prop.length

\* The bytes of the doubles of an array, one after the other; the array is
\* taken half by half.
RECURSIVE Float64sBytes(_)
Float64sBytes(vals) ==
    IF Len(vals) = 0 THEN <<>>
    ELSE IF Len(vals) = 1 THEN Float64Bytes(vals[1])
    ELSE Float64sBytes(SubSeq(vals, 1, Len(vals) \div 2))
         \o Float64sBytes(SubSeq(vals, Len(vals) \div 2 + 1, Len(vals)))

\* for (const val of doubleArray) { view.setFloat64(offset, val, true);
\* offset += 8; }: the stores are consecutive, and the first one that does
\* not fit the buffer throws, which happens when the whole does not fit.
WriteFloat64s(st, prop) ==
    IF ArrayLength(prop) = 0 \/ st.status # "ok" THEN st
    ELSE IF st.offset + 8 * ArrayLength(prop) > bufferSize
    THEN [st EXCEPT !.status = "threw"]
    ELSE IF "value" \in DOMAIN prop
    THEN Advance(Store(st, st.offset, Float64sBytes(prop.value)),
                 8 * Len(prop.value))
    ELSE Advance([st EXCEPT !.view =
                     [i \in 1..Len(st.view) |->
                        IF i > st.offset /\ i <= st.offset + 8 * prop.length
                        THEN 0 ELSE st.view[i]]],
                 8 * prop.length)

RECURSIVE WriteInt32s(_, _)
WriteInt32s(st, vals) ==
    IF vals = <<>> \/ st.status # "ok" THEN st
    ELSE WriteInt32s(Advance(Store(st, st.offset, LittleEndian(Head(vals), 4)), 4),
                     Tail(vals))

\* The number an 'L' property holds, an integer v with |v| < 2^47, as
\* [q, r] with v = 65536 * q + r and 0 <= r < 65536.  The property record
\* has the field value for |v| < 2^31 and the fields q and r otherwise.
NumberOf(prop) ==
    IF "value" \in DOMAIN prop
    THEN [q |-> prop.value \div 65536, r |-> prop.value % 65536]
    ELSE [q |-> prop.q, r |-> prop.r]

\* view.setInt32(offset, value & 0xFFFFFFFF, true): ToInt32 keeps the low
\* 32 bits of the integer, and those are the bytes stored.
LowWord(n) == LittleEndian(n.r, 2) \o LittleEndian(n.q, 2)

\* (prop.value >> 32) & 0xFFFFFFFF: the shift count is taken modulo 32, so
\* the value is shifted by 0 after ToInt32 and the low 32 bits come again.
HighWordShift(n) == LowWord(n)

\* Math.floor(value / 0x100000000), stored by setInt32.
HighWordFloor(n) == LittleEndian(n.q \div 65536, 4)

\* case 'L': the low word, then the high word as the revision computes it.
WriteInt64(st, prop) ==
    LET n    == NumberOf(prop)
        low  == Store(st, st.offset, LowWord(n))
        high == Store(low, st.offset + 4,
                      IF wrVariant = "shift" THEN HighWordShift(n)
                      ELSE HighWordFloor(n))
    IN  Advance(high, 8)

\* count, encoding 0, byte length, then the elements.
WriteArrayHeader(st, count, elementSize) ==
    LET a == Advance(Store(st, st.offset, LittleEndian(count, 4)), 4)
        b == Advance(Store(a, a.offset, LittleEndian(0, 4)), 4)
    IN  Advance(Store(b, b.offset, LittleEndian(count * elementSize, 4)), 4)

writePropertyToBinary(st, prop) ==
    LET typed == Advance(Store(st, st.offset, <<CharCode(prop.type) % 256>>), 1)
    IN  CASE prop.type = "S" ->
               WriteChars(Advance(Store(typed, typed.offset,
                                        LittleEndian(Len(prop.value), 4)), 4),
                          prop.value)
          [] prop.type = "I" ->
               Advance(Store(typed, typed.offset, LittleEndian(prop.value, 4)), 4)
          [] prop.type = "L" -> WriteInt64(typed, prop)
          [] prop.type = "D" ->
               Advance(Store(typed, typed.offset, Float64Bytes(prop.value)), 8)
          [] prop.type = "d" ->
               WriteFloat64s(WriteArrayHeader(typed, ArrayLength(prop), 8), prop)
          [] prop.type = "i" ->
               WriteInt32s(WriteArrayHeader(typed, Len(prop.value), 4), prop.value)
          [] OTHER -> typed

RECURSIVE WriteProperties(_, _)
WriteProperties(st, props) ==
    IF props = <<>> \/ st.status # "ok" THEN st
    ELSE WriteProperties(writePropertyToBinary(st, Head(props)), Tail(props))

\* A writer that stores the node's length in the slot, not the cursor.
BackPatchNodeLength(st, endOffsetPos) ==
    Store(st, endOffsetPos, LittleEndian(st.offset - endOffsetPos, 4))

\* Where writeNodeToBinary stores the end offset once the children are
\* written: the slot reserved at the node's start, with the cursor's value.
BackPatchEndOffset(st, endOffsetPos) ==
    Store(st, endOffsetPos, LittleEndian(st.offset, 4))

\* A writer that stores the cursor in the property list length slot, not
\* the span of the properties.
BackPatchPropertyEnd(st, propLengthOffset, propStartOffset) ==
    Store(st, propLengthOffset, LittleEndian(st.offset, 4))

\* view.setUint32(propLengthOffset, offset - propStartOffset, true), once the
\* properties are written.
BackPatchPropertyLength(st, propLengthOffset, propStartOffset) ==
    Store(st, propLengthOffset, LittleEndian(st.offset - propStartOffset, 4))

RECURSIVE writeNodeToBinary(_, _)
RECURSIVE WriteChildren(_, _)

writeNodeToBinary(st, node) ==
    LET endOffsetPos     == st.offset
        reserved         == Advance(st, 4)
        counted          == Advance(Store(reserved, reserved.offset,
                                LittleEndian(Len(node.properties), 4)), 4)
        propLengthOffset == counted.offset
        skipped          == Advance(counted, 4)
        nameLen          == Advance(Store(skipped, skipped.offset,
                                <<Len(node.name) % 256>>), 1)
        named            == WriteChars(nameLen, node.name)
        propStartOffset  == named.offset
        props            == WriteProperties(named, node.properties)
        patched          == BackPatchPropertyLength(props, propLengthOffset,
                                                    propStartOffset)
        withChildren     == WriteChildren(patched, node.children)
    IN  BackPatchEndOffset(withChildren, endOffsetPos)

WriteChildren(st, children) ==
    IF children = <<>> \/ st.status # "ok" THEN st
    ELSE WriteChildren(writeNodeToBinary(st, Head(children)), Tail(children))

-----------------------------------------------------------------------------
(* FBXExporter.createValidFBXBinary, from the node list on *)

headerString ==
    <<"K", "a", "y", "d", "a", "r", "a", " ", "F", "B", "X", " ",
      "B", "i", "n", "a", "r", "y", " ", " ", "U+0000", "U+001A", "U+0000">>

FbxVersion == 7500

\* The safety margin of the check made after each top-level node.
SafetyMargin == 1000

FooterSize == 13

\* for (const node of fbxNodes) { offset = writeNodeToBinary(...);
\*   if (offset >= bufferSize - 1000) break; }
RECURSIVE WriteTopLevel(_, _)
WriteTopLevel(st, nodes) ==
    IF nodes = <<>> \/ st.status # "ok" THEN st
    ELSE LET w == writeNodeToBinary(st, Head(nodes))
         IN  IF w.offset >= bufferSize - SafetyMargin THEN w
             ELSE WriteTopLevel(w, Tail(nodes))

\* The null record: written only when offset + 13 < bufferSize.
WriteFooter(st) ==
    IF st.offset + FooterSize < bufferSize
    THEN Advance(Store(st, st.offset, Rep(0, FooterSize)), FooterSize)
    ELSE st

\* The writer state at the end of createValidFBXBinary for the node list.
createValidFBXBinary(nodes) ==
    LET start    == [view |-> <<>>, offset |-> 0, status |-> "ok"]
        header   == WriteChars(start, headerString)
        version  == Advance(Store(header, header.offset,
                                  LittleEndian(FbxVersion, 4)), 4)
        body     == WriteTopLevel(version, nodes)
    IN  WriteFooter(body)

\* buffer.slice(0, offset): offset bytes, those of the view and then zeros.
SliceBuffer(st) ==
    [bytes  |-> IF st.offset <= Len(st.view)
                THEN SubSeq(st.view, 1, st.offset) ELSE st.view,
     length |-> st.offset]

\* The value of wrBuffer while nothing is returned.
NoBuffer == [bytes |-> <<>>, length |-> 0]

-----------------------------------------------------------------------------
(* The inputs of the writer *)

\* The depth of the deepest generated tree (a leaf has depth 0).
MaxDepth == 2

PropS(s) == [type |-> "S", value |-> s]

PropI(v) == [type |-> "I", value |-> v]

PropL(v) == [type |-> "L", value |-> v]

\* An 'L' property holding 65536 * q + r.
PropBig(q, r) == [type |-> "L", q |-> q, r |-> r]

PropD(v) == [type |-> "D", value |-> v]

PropDs(vs) == [type |-> "d", value |-> vs]

PropIs(vs) == [type |-> "i", value |-> vs]

InputProperties ==
    { <<>>,
      <<PropI(5)>>,
      <<PropS(<<"H", "i">>), PropL(-2), PropD(1)>>,
      <<PropDs(<<0, 100>>), PropIs(<<7, -1>>)>> }

NodeNames == {<<"A">>, <<"B">>}

Node(name, properties, children) ==
    [name |-> name, properties |-> properties, children |-> children]

LeafB == Node(<<"B">>, <<PropI(5)>>, <<>>)

InnerProperties == {<<>>, <<PropI(5)>>}

\* The trees of depth at most d.  A leaf carries any of the property lists;
\* an inner node is named A and has a child list that is empty, one smaller
\* tree, or one smaller tree followed by the leaf B.
RECURSIVE Trees(_)
Trees(d) ==
    IF d = 0
    THEN { Node(n, p, <<>>) : n \in NodeNames, p \in InputProperties }
    ELSE LET smaller == Trees(d - 1)
             lists   == {<<>>} \cup {<<t>> : t \in smaller}
                               \cup {<<t, LeafB>> : t \in smaller}
         IN  smaller \cup
             { Node(<<"A">>, p, c) : p \in InnerProperties, c \in lists }

\* { type: 'd', value: new Float64Array(n) }
PropZeros(n) == [type |-> "d", length |-> n]

\* The node A holding one array of n doubles 0: 27 + 8 * n bytes.
BigNode(n) == Node(<<"A">>, <<PropZeros(n)>>, <<>>)

\* Node lists about as large as the buffer: one whose first node ends
\* within the safety margin, one that ends less than a footer before the
\* end of the buffer, and two that do not fit.
LargeNodeLists ==
    { <<BigNode((bufferSize - SafetyMargin) \div 8), LeafB>>,
      <<BigNode((bufferSize - 64) \div 8)>>,
      <<BigNode(bufferSize \div 8)>>,
      <<LeafB, Node(<<"A">>, <<>>, <<BigNode(bufferSize \div 8)>>)>> }

\* Node lists with the names the name resolver makes as string properties:
\* the original prefix with the Arabic word for Walking, and the imported
\* prefix with Walk.
NamedNodeLists ==
    { <<Node(<<"A">>, <<PropS(originalPrefix \o cleanAnimationName(<<"W", "a", "l", "k", "i", "n", "g">>)),
                       PropI(5)>>, <<LeafB>>)>>,
      <<Node(<<"A">>, <<PropS(importedPrefix \o Walk)>>, <<>>), LeafB>> }

\* Node lists with 'L' values of 2^31 and more: the ticks of a clip of one
\* second (46186158000), 2^31, and -(2^32) - 1; and with small ones.
WideNodeLists ==
    { <<Node(<<"A">>, <<PropBig(704744, 55216), PropI(5)>>, <<LeafB>>)>>,
      <<Node(<<"A">>, <<PropBig(32768, 0)>>, <<>>), LeafB>>,
      <<Node(<<"A">>, <<PropBig(-65537, 65535)>>, <<>>)>>,
      <<Node(<<"A">>, <<PropL(0), PropL(-1), PropL(1234567890)>>, <<>>)>> }

\* The small node lists written: one tree, or a tree followed by the leaf B.
InputNodeLists ==
    {<<>>} \cup {<<t>> : t \in Trees(MaxDepth)}
           \cup {<<t, LeafB>> : t \in Trees(MaxDepth)}

WriterIdle ==
    /\ fbxNodes = <<>>
    /\ wrVariant = "none"
    /\ wrStatus = "none"
    /\ wrBuffer = NoBuffer

WriterInit ==
    /\ \/ fbxNodes \in InputNodeLists
       \/ fbxNodes \in LargeNodeLists
       \/ fbxNodes \in NamedNodeLists
       \/ fbxNodes \in WideNodeLists
    /\ wrVariant \in {"floor", "shift"}
    /\ wrStatus = "none"
    /\ wrBuffer = NoBuffer

\* The call createValidFBXBinary, with fbxNodes the list the node builder
\* produced: it returns the written part of the buffer, or a store past the
\* end of the buffer throws.
CreateValidFBXBinary ==
    /\ wrStatus = "none"
    /\ LET st == createValidFBXBinary(fbxNodes)
       IN  IF st.status = "ok"
           THEN /\ wrStatus' = "returned"
                /\ wrBuffer' = SliceBuffer(st)
           ELSE /\ wrStatus' = "threw"
                /\ wrBuffer' = NoBuffer
    /\ UNCHANGED <<fbxNodes, wrVariant, nameVars, procVars, hookVars, pipelineVars>>

WriterNext == CreateValidFBXBinary

-----------------------------------------------------------------------------
(* retargetAnimation (useAnimationRegistry)                                *)
(*                                                                         *)
(* The file holds two revisions of the hook.  Revision 1 (lines 32-235)    *)
(* takes the first skinned mesh, matches bone names by case-insensitive    *)
(* containment, retargets above 3 mapped bones and removes the root        *)
(* rotation track; revision 2 (lines 267-457) takes the last skinned mesh, *)
(* matches names exactly, and retargets above 5 mapped bones.              *)
(***************************************************************************)

UpperCase ==
    <<"A", "B", "C", "D", "E", "F", "G", "H", "I", "J", "K", "L", "M", 
      "N", "O", "P", "Q", "R", "S", "T", "U", "V", "W", "X", "Y", "Z">>

LowerCase ==
    <<"a", "b", "c", "d", "e", "f", "g", "h", "i", "j", "k", "l", "m", 
      "n", "o", "p", "q", "r", "s", "t", "u", "v", "w", "x", "y", "z">>

LowerCaseOf ==
    [ c \in {UpperCase[u] : u \in 1..Len(UpperCase)} |->
        LowerCase[CHOOSE u \in 1..Len(UpperCase) : UpperCase[u] = c] ]

ToLowerCase(s) ==
    [k \in 1..Len(s) |-> IF s[k] \in DOMAIN LowerCaseOf THEN LowerCaseOf[s[k]] ELSE s[k]]

\* s.includes(sub)
Includes(s, sub) ==
    \E k \in 0..(Len(s) - Len(sub)) : SubSeq(s, k + 1, k + Len(sub)) = sub

\* Revision 1, lines 84-105.
commonMappings ==
    <<
       << <<"m", "i", "x", "a", "m", "o", "r", "i", "g", ":", "H", "i", "p", "s">>,
          <<"H", "i", "p", "s">>,
          <<"H", "i", "p">>,
          <<"R", "o", "o", "t">>,
          <<"P", "e", "l", "v", "i", "s">> >>,
       << <<"m", "i", "x", "a", "m", "o", "r", "i", "g", ":", "S", "p", "i", "n", "e">>,
          <<"S", "p", "i", "n", "e">>,
          <<"S", "p", "i", "n", "e", "1">>,
          <<"C", "h", "e", "s", "t">> >>,
       << <<"m", "i", "x", "a", "m", "o", "r", "i", "g", ":", "S", "p", "i", "n", "e", "1">>,
          <<"S", "p", "i", "n", "e", "1">>,
          <<"S", "p", "i", "n", "e", "2">>,
          <<"U", "p", "p", "e", "r", "C", "h", "e", "s", "t">> >>,
       << <<"m", "i", "x", "a", "m", "o", "r", "i", "g", ":", "S", "p", "i", "n", "e", "2">>,
          <<"S", "p", "i", "n", "e", "2">>,
          <<"S", "p", "i", "n", "e", "3">>,
          <<"C", "h", "e", "s", "t">> >>,
       << <<"m", "i", "x", "a", "m", "o", "r", "i", "g", ":", "N", "e", "c", "k">>,
          <<"N", "e", "c", "k">>,
          <<"N", "e", "c", "k", "1">> >>,
       << <<"m", "i", "x", "a", "m", "o", "r", "i", "g", ":", "H", "e", "a", "d">>,
          <<"H", "e", "a", "d">> >>,
       << <<"m", "i", "x", "a", "m", "o", "r", "i", "g", ":", "L", "e", "f", "t", "S", "h", "o", "u", "l", "d", "e", "r">>,
          <<"L", "e", "f", "t", "S", "h", "o", "u", "l", "d", "e", "r">>,
          <<"L", "_", "S", "h", "o", "u", "l", "d", "e", "r">>,
          <<"L", "e", "f", "t", "_", "S", "h", "o", "u", "l", "d", "e", "r">> >>,
       << <<"m", "i", "x", "a", "m", "o", "r", "i", "g", ":", "L", "e", "f", "t", "A", "r", "m">>,
          <<"L", "e", "f", "t", "A", "r", "m">>,
          <<"L", "_", "U", "p", "p", "e", "r", "A", "r", "m">>,
          <<"L", "e", "f", "t", "_", "U", "p", "p", "e", "r", "A", "r", "m">> >>,
       << <<"m", "i", "x", "a", "m", "o", "r", "i", "g", ":", "L", "e", "f", "t", "F", "o", "r", "e", "A", "r", "m">>,
          <<"L", "e", "f", "t", "F", "o", "r", "e", "A", "r", "m">>,
          <<"L", "_", "L", "o", "w", "e", "r", "A", "r", "m">>,
          <<"L", "e", "f", "t", "_", "L", "o", "w", "e", "r", "A", "r", "m">> >>,
       << <<"m", "i", "x", "a", "m", "o", "r", "i", "g", ":", "L", "e", "f", "t", "H", "a", "n", "d">>,
          <<"L", "e", "f", "t", "H", "a", "n", "d">>,
          <<"L", "_", "H", "a", "n", "d">>,
          <<"L", "e", "f", "t", "_", "H", "a", "n", "d">> >>,
       << <<"m", "i", "x", "a", "m", "o", "r", "i", "g", ":", "R", "i", "g", "h", "t", "S", "h", "o", "u", "l", "d", "e", "r">>,
          <<"R", "i", "g", "h", "t", "S", "h", "o", "u", "l", "d", "e", "r">>,
          <<"R", "_", "S", "h", "o", "u", "l", "d", "e", "r">>,
          <<"R", "i", "g", "h", "t", "_", "S", "h", "o", "u", "l", "d", "e", "r">> >>,
       << <<"m", "i", "x", "a", "m", "o", "r", "i", "g", ":", "R", "i", "g", "h", "t", "A", "r", "m">>,
          <<"R", "i", "g", "h", "t", "A", "r", "m">>,
          <<"R", "_", "U", "p", "p", "e", "r", "A", "r", "m">>,
          <<"R", "i", "g", "h", "t", "_", "U", "p", "p", "e", "r", "A", "r", "m">> >>,
       << <<"m", "i", "x", "a", "m", "o", "r", "i", "g", ":", "R", "i", "g", "h", "t", "F", "o", "r", "e", "A", "r", "m">>,
          <<"R", "i", "g", "h", "t", "F", "o", "r", "e", "A", "r", "m">>,
          <<"R", "_", "L", "o", "w", "e", "r", "A", "r", "m">>,
          <<"R", "i", "g", "h", "t", "_", "L", "o", "w", "e", "r", "A", "r", "m">> >>,
       << <<"m", "i", "x", "a", "m", "o", "r", "i", "g", ":", "R", "i", "g", "h", "t", "H", "a", "n", "d">>,
          <<"R", "i", "g", "h", "t", "H", "a", "n", "d">>,
          <<"R", "_", "H", "a", "n", "d">>,
          <<"R", "i", "g", "h", "t", "_", "H", "a", "n", "d">> >>,
       << <<"m", "i", "x", "a", "m", "o", "r", "i", "g", ":", "L", "e", "f", "t", "U", "p", "L", "e", "g">>,
          <<"L", "e", "f", "t", "U", "p", "L", "e", "g">>,
          <<"L", "_", "U", "p", "p", "e", "r", "L", "e", "g">>,
          <<"L", "e", "f", "t", "_", "U", "p", "p", "e", "r", "L", "e", "g">>,
          <<"L", "_", "T", "h", "i", "g", "h">> >>,
       << <<"m", "i", "x", "a", "m", "o", "r", "i", "g", ":", "L", "e", "f", "t", "L", "e", "g">>,
          <<"L", "e", "f", "t", "L", "e", "g">>,
          <<"L", "_", "L", "o", "w", "e", "r", "L", "e", "g">>,
          <<"L", "e", "f", "t", "_", "L", "o", "w", "e", "r", "L", "e", "g">>,
          <<"L", "_", "S", "h", "i", "n">> >>,
       << <<"m", "i", "x", "a", "m", "o", "r", "i", "g", ":", "L", "e", "f", "t", "F", "o", "o", "t">>,
          <<"L", "e", "f", "t", "F", "o", "o", "t">>,
          <<"L", "_", "F", "o", "o", "t">>,
          <<"L", "e", "f", "t", "_", "F", "o", "o", "t">> >>,
       << <<"m", "i", "x", "a", "m", "o", "r", "i", "g", ":", "R", "i", "g", "h", "t", "U", "p", "L", "e", "g">>,
          <<"R", "i", "g", "h", "t", "U", "p", "L", "e", "g">>,
          <<"R", "_", "U", "p", "p", "e", "r", "L", "e", "g">>,
          <<"R", "i", "g", "h", "t", "_", "U", "p", "p", "e", "r", "L", "e", "g">>,
          <<"R", "_", "T", "h", "i", "g", "h">> >>,
       << <<"m", "i", "x", "a", "m", "o", "r", "i", "g", ":", "R", "i", "g", "h", "t", "L", "e", "g">>,
          <<"R", "i", "g", "h", "t", "L", "e", "g">>,
          <<"R", "_", "L", "o", "w", "e", "r", "L", "e", "g">>,
          <<"R", "i", "g", "h", "t", "_", "L", "o", "w", "e", "r", "L", "e", "g">>,
          <<"R", "_", "S", "h", "i", "n">> >>,
       << <<"m", "i", "x", "a", "m", "o", "r", "i", "g", ":", "R", "i", "g", "h", "t", "F", "o", "o", "t">>,
          <<"R", "i", "g", "h", "t", "F", "o", "o", "t">>,
          <<"R", "_", "F", "o", "o", "t">>,
          <<"R", "i", "g", "h", "t", "_", "F", "o", "o", "t">> >>
    >>

\* Revision 2, lines 312-333.
commonMappingsEarlier ==
    <<
       << <<"m", "i", "x", "a", "m", "o", "r", "i", "g", ":", "H", "i", "p", "s">>,
          <<"H", "i", "p", "s">>,
          <<"H", "i", "p">> >>,
       << <<"m", "i", "x", "a", "m", "o", "r", "i", "g", ":", "S", "p", "i", "n", "e">>,
          <<"S", "p", "i", "n", "e">>,
          <<"S", "p", "i", "n", "e", "1">> >>,
       << <<"m", "i", "x", "a", "m", "o", "r", "i", "g", ":", "S", "p", "i", "n", "e", "1">>,
          <<"S", "p", "i", "n", "e", "1">>,
          <<"S", "p", "i", "n", "e", "2">> >>,
       << <<"m", "i", "x", "a", "m", "o", "r", "i", "g", ":", "S", "p", "i", "n", "e", "2">>,
          <<"S", "p", "i", "n", "e", "2">>,
          <<"S", "p", "i", "n", "e", "3">> >>,
       << <<"m", "i", "x", "a", "m", "o", "r", "i", "g", ":", "N", "e", "c", "k">>,
          <<"N", "e", "c", "k">>,
          <<"N", "e", "c", "k", "1">> >>,
       << <<"m", "i", "x", "a", "m", "o", "r", "i", "g", ":", "H", "e", "a", "d">>,
          <<"H", "e", "a", "d">> >>,
       << <<"m", "i", "x", "a", "m", "o", "r", "i", "g", ":", "L", "e", "f", "t", "S", "h", "o", "u", "l", "d", "e", "r">>,
          <<"L", "e", "f", "t", "S", "h", "o", "u", "l", "d", "e", "r">>,
          <<"L", "_", "S", "h", "o", "u", "l", "d", "e", "r">> >>,
       << <<"m", "i", "x", "a", "m", "o", "r", "i", "g", ":", "L", "e", "f", "t", "A", "r", "m">>,
          <<"L", "e", "f", "t", "A", "r", "m">>,
          <<"L", "_", "U", "p", "p", "e", "r", "A", "r", "m">> >>,
       << <<"m", "i", "x", "a", "m", "o", "r", "i", "g", ":", "L", "e", "f", "t", "F", "o", "r", "e", "A", "r", "m">>,
          <<"L", "e", "f", "t", "F", "o", "r", "e", "A", "r", "m">>,
          <<"L", "_", "L", "o", "w", "e", "r", "A", "r", "m">> >>,
       << <<"m", "i", "x", "a", "m", "o", "r", "i", "g", ":", "L", "e", "f", "t", "H", "a", "n", "d">>,
          <<"L", "e", "f", "t", "H", "a", "n", "d">>,
          <<"L", "_", "H", "a", "n", "d">> >>,
       << <<"m", "i", "x", "a", "m", "o", "r", "i", "g", ":", "R", "i", "g", "h", "t", "S", "h", "o", "u", "l", "d", "e", "r">>,
          <<"R", "i", "g", "h", "t", "S", "h", "o", "u", "l", "d", "e", "r">>,
          <<"R", "_", "S", "h", "o", "u", "l", "d", "e", "r">> >>,
       << <<"m", "i", "x", "a", "m", "o", "r", "i", "g", ":", "R", "i", "g", "h", "t", "A", "r", "m">>,
          <<"R", "i", "g", "h", "t", "A", "r", "m">>,
          <<"R", "_", "U", "p", "p", "e", "r", "A", "r", "m">> >>,
       << <<"m", "i", "x", "a", "m", "o", "r", "i", "g", ":", "R", "i", "g", "h", "t", "F", "o", "r", "e", "A", "r", "m">>,
          <<"R", "i", "g", "h", "t", "F", "o", "r", "e", "A", "r", "m">>,
          <<"R", "_", "L", "o", "w", "e", "r", "A", "r", "m">> >>,
       << <<"m", "i", "x", "a", "m", "o", "r", "i", "g", ":", "R", "i", "g", "h", "t", "H", "a", "n", "d">>,
          <<"R", "i", "g", "h", "t", "H", "a", "n", "d">>,
          <<"R", "_", "H", "a", "n", "d">> >>,
       << <<"m", "i", "x", "a", "m", "o", "r", "i", "g", ":", "L", "e", "f", "t", "U", "p", "L", "e", "g">>,
          <<"L", "e", "f", "t", "U", "p", "L", "e", "g">>,
          <<"L", "_", "U", "p", "p", "e", "r", "L", "e", "g">> >>,
       << <<"m", "i", "x", "a", "m", "o", "r", "i", "g", ":", "L", "e", "f", "t", "L", "e", "g">>,
          <<"L", "e", "f", "t", "L", "e", "g">>,
          <<"L", "_", "L", "o", "w", "e", "r", "L", "e", "g">> >>,
       << <<"m", "i", "x", "a", "m", "o", "r", "i", "g", ":", "L", "e", "f", "t", "F", "o", "o", "t">>,
          <<"L", "e", "f", "t", "F", "o", "o", "t">>,
          <<"L", "_", "F", "o", "o", "t">> >>,
       << <<"m", "i", "x", "a", "m", "o", "r", "i", "g", ":", "R", "i", "g", "h", "t", "U", "p", "L", "e", "g">>,
          <<"R", "i", "g", "h", "t", "U", "p", "L", "e", "g">>,
          <<"R", "_", "U", "p", "p", "e", "r", "L", "e", "g">> >>,
       << <<"m", "i", "x", "a", "m", "o", "r", "i", "g", ":", "R", "i", "g", "h", "t", "L", "e", "g">>,
          <<"R", "i", "g", "h", "t", "L", "e", "g">>,
          <<"R", "_", "L", "o", "w", "e", "r", "L", "e", "g">> >>,
       << <<"m", "i", "x", "a", "m", "o", "r", "i", "g", ":", "R", "i", "g", "h", "t", "F", "o", "o", "t">>,
          <<"R", "i", "g", "h", "t", "F", "o", "o", "t">>,
          <<"R", "_", "F", "o", "o", "t">> >>
    >>

\* variations.some(v => name.toLowerCase().includes(v.toLowerCase()) ||
\*                      v.toLowerCase().includes(name.toLowerCase()))
EitherIncludes(a, b) == Includes(a, b) \/ Includes(b, a)

FuzzyMatch(variations, name) ==
    \E k \in 1..Len(variations) :
        EitherIncludes(ToLowerCase(name), ToLowerCase(variations[k]))

\* variations.includes(name)
ExactMatch(variations, name) ==
    \E k \in 1..Len(variations) : variations[k] = name

VariationMatch(rev, variations, name) ==
    IF rev = 1 THEN FuzzyMatch(variations, name)
    ELSE ExactMatch(variations, name)

MappingTable(rev) ==
    IF rev = 1 THEN commonMappings ELSE commonMappingsEarlier

\* bones.find(pred): the first bone satisfying pred, as a set of 0 or 1.
FirstOf(bones, hits) ==
    IF hits = {} THEN {}
    ELSE {bones[CHOOSE k \in hits : \A j \in hits : k <= j]}

\* bones.find(b => b.name === targetName)
FindExact(bones, targetName) ==
    FirstOf(bones, {k \in 1..Len(bones) : bones[k] = targetName})

\* bones.find(b => variations.some(...)), or variations.includes(b.name)
FindVariation(rev, bones, variations) ==
    FirstOf(bones, {k \in 1..Len(bones) : VariationMatch(rev, variations, bones[k])})

\* found when there is one, otherwise what the search goes on to find.
OrElse(found, otherwise) == IF found # {} THEN found ELSE otherwise

\* The for loop over the table entries from entry e on, for one target
\* bone: the source bone it is mapped from, as a set of 0 or 1.
RECURSIVE CommonMappingFrom(_, _, _, _)
CommonMappingFrom(rev, sourceBones, targetName, e) ==
    IF e > Len(MappingTable(rev)) THEN {}
    ELSE OrElse(IF VariationMatch(rev, MappingTable(rev)[e], targetName)
                THEN FindVariation(rev, sourceBones, MappingTable(rev)[e])
                ELSE {},
                CommonMappingFrom(rev, sourceBones, targetName, e + 1))

\* The source bone one target bone is mapped from: the exact match first.
SourceFor(rev, sourceBones, targetName) ==
    OrElse(FindExact(sourceBones, targetName),
           CommonMappingFrom(rev, sourceBones, targetName, 1))

\* targetSkeleton.bones.forEach(...): boneMapping[source name] = target
\* name, a later target bone overwriting an earlier one under the same key.
\* The mapping is a set of <<source, target>> pairs, one per key.
\* boneMapping[source name] = targetName, when a source bone was found.
SetMapping(mapping, source, targetName) ==
    IF source = {} THEN mapping
    ELSE {p \in mapping : p[1] \notin source}
             \cup {<<CHOOSE b \in source : TRUE, targetName>>}

RECURSIVE BuildMapping(_, _, _, _)
BuildMapping(rev, sourceBones, targetBones, mapping) ==
    IF targetBones = <<>> THEN mapping
    ELSE BuildMapping(rev, sourceBones, Tail(targetBones),
             SetMapping(mapping,
                        SourceFor(rev, sourceBones, Head(targetBones)),
                        Head(targetBones)))

\* A threshold one lower: 3 mapped bones, or 5, are already enough.
LowerThreshold(rev, mapped) ==
    IF rev = 1 THEN mapped >= 3 ELSE mapped >= 5

\* Object.keys(boneMapping).length > 3, or > 5 in revision 2.
GoodMapping(rev, mapped) ==
    IF rev = 1 THEN mapped > 3 ELSE mapped > 5

\* The skinned mesh whose skeleton sourceRoot.traverse settles on: the first
\* one with a skeleton, or the last one in revision 2.  A root is the list
\* of its nodes in traversal order, each [skinned, hasSkeleton, bones].
SourceSkeleton(rev, sourceRoot) ==
    LET hits == { k \in 1..Len(sourceRoot) :
                    sourceRoot[k].skinned /\ sourceRoot[k].hasSkeleton }
    IN  IF hits = {} THEN {}
        ELSE IF rev = 1
             THEN {sourceRoot[CHOOSE k \in hits : \A j \in hits : k <= j].bones}
             ELSE {sourceRoot[CHOOSE k \in hits : \A j \in hits : k >= j].bones}

rootNames ==
    << <<"H", "i", "p", "s">>,
       <<"m", "i", "x", "a", "m", "o", "r", "i", "g", ":", "H", "i", "p", "s">>,
       <<"m", "i", "x", "a", "m", "o", "r", "i", "g", "H", "i", "p", "s">> >>

DotQuaternion == <<".", "q", "u", "a", "t", "e", "r", "n", "i", "o", "n">>

\* rootNames.some(r => track.name.endsWith(`${r}.quaternion`))
IsRootQuat(track) ==
    \E k \in 1..Len(rootNames) : EndsWith(track.name, rootNames[k] \o DotQuaternion)

\* The clip built from what SkeletonUtils.retargetClip returned: the source
\* clip's name, and in revision 1 the tracks that are no root rotation.
PostProcess(rev, sourceClip, returned) ==
    [ name   |-> sourceClip.name,
      tracks |-> IF rev = 1
                 THEN SelectSeq(returned.tracks, LAMBDA t : ~IsRootQuat(t))
                 ELSE returned.tracks ]

CloneClip(clip) == [name |-> clip.name, tracks |-> clip.tracks]

\* return sourceClip.clone(): threw tells whether the call ended with an
\* exception in place of a return.
Cloned(sourceClip, called, mapped) ==
    [ clip |-> CloneClip(sourceClip), retargeted |-> FALSE,
      called |-> called, mapped |-> mapped, threw |-> FALSE ]

\* A handler that lets the exception of retargetClip go on to the caller.
RethrowRetargetFailure(sourceClip, mapped) ==
    [ clip |-> <<>>, retargeted |-> FALSE,
      called |-> TRUE, mapped |-> mapped, threw |-> TRUE ]

\* catch (error) { console.warn(...) } around the retargetClip call, and
\* then the return of the clone after it.
CatchRetargetFailure(sourceClip, mapped) ==
    Cloned(sourceClip, TRUE, mapped)

\* Lines 137-163 (361-377 in revision 2), mapped being the number of keys
\* of boneMapping.
RetargetMapped(rev, sourceClip, mapped, ext) ==
    IF GoodMapping(rev, mapped)
    THEN IF ext.kind = "clip"
         THEN [ clip |-> PostProcess(rev, sourceClip, ext), retargeted |-> TRUE,
                called |-> TRUE, mapped |-> mapped, threw |-> FALSE ]
         ELSE IF ext.kind = "throws"
         THEN CatchRetargetFailure(sourceClip, mapped)
         ELSE Cloned(sourceClip, TRUE, mapped)
    ELSE Cloned(sourceClip, FALSE, mapped)

\* Lines 59-163, skeleton being the source skeleton found, if any.
RetargetFrom(rev, sourceClip, skeleton, targetSkeleton, ext) ==
    IF skeleton = {} THEN Cloned(sourceClip, FALSE, -1)
    ELSE RetargetMapped(rev, sourceClip,
             Cardinality(BuildMapping(rev, CHOOSE s \in skeleton : TRUE,
                                      targetSkeleton.bones, {})),
             ext)

\* retargetAnimation(sourceClip, sourceRoot, targetSkeleton).  sourceRoot is
\* [present, nodes], targetSkeleton is [present, bones]; ext is what
\* SkeletonUtils.retargetClip does when called: it returns a clip
\* ([kind |-> "clip", tracks]), returns nothing, or throws.
\* The result tells the clip returned, whether retargetClip was called and
\* the number of keys of boneMapping (-1 when no mapping was built).
retargetAnimation(rev, sourceClip, sourceRoot, targetSkeleton, ext) ==
    IF ~sourceRoot.present \/ ~targetSkeleton.present
    THEN Cloned(sourceClip, FALSE, -1)
    ELSE RetargetFrom(rev, sourceClip, SourceSkeleton(rev, sourceRoot.nodes),
                      targetSkeleton, ext)

-----------------------------------------------------------------------------
(* Inputs of retargetAnimation *)

TargetPool ==
    << <<"H", "i", "p", "s">>, <<"S", "p", "i", "n", "e">>, <<"H", "e", "a", "d">>, <<"L", "e", "f", "t", "A", "r", "m">>,
       <<"R", "i", "g", "h", "t", "A", "r", "m">>, <<"T", "a", "i", "l">>, <<"R", "o", "o", "t">> >>

SourcePool ==
    << <<"m", "i", "x", "a", "m", "o", "r", "i", "g", ":", "H", "i", "p", "s">>, <<"m", "i", "x", "a", "m", "o", "r", "i", "g", ":", "S", "p", "i", "n", "e">>, <<"m", "i", "x", "a", "m", "o", "r", "i", "g", ":", "H", "e", "a", "d">>,
       <<"m", "i", "x", "a", "m", "o", "r", "i", "g", ":", "L", "e", "f", "t", "A", "r", "m">>, <<"m", "i", "x", "a", "m", "o", "r", "i", "g", ":", "R", "i", "g", "h", "t", "A", "r", "m">>, <<"T", "a", "i", "l">>, <<"P", "e", "l", "v", "i", "s">> >>

Without(s, j) == [k \in 1..(Len(s) - 1) |-> IF k < j THEN s[k] ELSE s[k + 1]]

Reverse(s) == [k \in 1..Len(s) |-> s[Len(s) + 1 - k]]

\* The bone lists tried: the prefixes of a pool, each also with one bone
\* left out, and the whole pool in reverse order.
BoneLists(pool) ==
    {<<>>, Reverse(pool)}
        \cup {SubSeq(pool, 1, k) : k \in 1..Len(pool)}
        \cup {Without(SubSeq(pool, 1, k), j) : k \in 1..Len(pool), j \in 1..Len(pool)}

PlainNode == [skinned |-> FALSE, hasSkeleton |-> FALSE, bones |-> <<>>]

BareMesh == [skinned |-> TRUE, hasSkeleton |-> FALSE, bones |-> <<>>]

SkinnedMesh(bones) == [skinned |-> TRUE, hasSkeleton |-> TRUE, bones |-> bones]

NoRoot == [present |-> FALSE, nodes |-> <<>>]

Root(nodes) == [present |-> TRUE, nodes |-> nodes]

NoSkeleton == [present |-> FALSE, bones |-> <<>>]

Skeleton(bones) == [present |-> TRUE, bones |-> bones]

SourceRoots ==
    {NoRoot, Root(<<PlainNode, BareMesh>>)}
        \cup {Root(<<PlainNode, SkinnedMesh(b)>>) : b \in BoneLists(SourcePool)}
        \cup {Root(<<SkinnedMesh(SourcePool), SkinnedMesh(<<<<"P", "e", "l", "v", "i", "s">>>>)>>)}

TargetSkeletons == {NoSkeleton} \cup {Skeleton(b) : b \in BoneLists(TargetPool)}

OneKey(name, size) ==
    [name |-> name, times |-> <<0>>, values |-> [k \in 1..size |-> 0]]

HipsQuaternion == OneKey(<<"m", "i", "x", "a", "m", "o", "r", "i", "g", ":", "H", "i", "p", "s", ".", "q", "u", "a", "t", "e", "r", "n", "i", "o", "n">>, 4)

SpineQuaternion == OneKey(<<"m", "i", "x", "a", "m", "o", "r", "i", "g", ":", "S", "p", "i", "n", "e", ".", "q", "u", "a", "t", "e", "r", "n", "i", "o", "n">>, 4)

BonesHipsQuaternion == OneKey(<<".", "b", "o", "n", "e", "s", "[", "H", "i", "p", "s", "]", ".", "q", "u", "a", "t", "e", "r", "n", "i", "o", "n">>, 4)

WalkClip == [name |-> Walk, tracks |-> <<HipsQuaternion, SpineQuaternion>>]

IdleClip == [name |-> Idle, tracks |-> <<SpineQuaternion>>]

SourceClips == {WalkClip, IdleClip}

\* What SkeletonUtils.retargetClip may do when it is called.
RetargetClipOutcomes ==
    { [kind |-> "throws", tracks |-> <<>>],
      [kind |-> "nothing", tracks |-> <<>>],
      [kind |-> "clip", tracks |-> <<>>],
      [kind |-> "clip", tracks |-> <<HipsQuaternion, SpineQuaternion>>],
      [kind |-> "clip", tracks |-> <<BonesHipsQuaternion, SpineQuaternion>>] }

NoOutcome == [kind |-> "uncalled", tracks |-> <<>>]

\* The outcomes to choose from for one call: none when retargetClip is not
\* reached.
OutcomesFor(rev, sourceRoot, targetSkeleton) ==
    IF retargetAnimation(rev, WalkClip, sourceRoot, targetSkeleton, NoOutcome).called
    THEN RetargetClipOutcomes ELSE {NoOutcome}

RetargetIdle == rtInput = "Idle" /\ rtResult = <<>>

RetargetInit ==
    /\ revision \in {1, 2}
    /\ rtInput \in [ sourceClip : SourceClips, sourceRoot : SourceRoots,
                     targetSkeleton : TargetSkeletons ]
    /\ rtResult = <<>>

RetargetAnimation ==
    /\ rtResult = <<>>
    /\ \E ext \in OutcomesFor(revision, rtInput.sourceRoot, rtInput.targetSkeleton) :
         rtResult' = << [ ext |-> ext,
                          out |-> retargetAnimation(revision, rtInput.sourceClip,
                                      rtInput.sourceRoot, rtInput.targetSkeleton,
                                      ext) ] >>
    /\ UNCHANGED <<revision, rtInput, registryVars, nameVars, procVars, writerVars,
                   pipelineVars>>

RetargetNext == RetargetAnimation

-----------------------------------------------------------------------------
(* useAnimationRegistry: the registry operations                           *)
(*                                                                         *)
(* Clips are objects: clipObjects[ref] is the state of the clip object     *)
(* ref, and a registry item holds the ref of its clip.  Both revisions of  *)
(* the hook have the same registry operations (35-48 and 173-223,          *)
(* 270-283 and 386-436).                                                   *)
(***************************************************************************)

\* `original_${index}_${Date.now()}`
OriginalId(index, t) ==
    <<"o", "r", "i", "g", "i", "n", "a", "l", "_">> \o NumberToString(index) \o <<"_">> \o NumberToString(t)

\* clip.name || `Animation ${index + 1}`
OriginalName(clipName, index) ==
    IF clipName # <<>> THEN clipName
    ELSE <<"A", "n", "i", "m", "a", "t", "i", "o", "n", " ">> \o NumberToString(index + 1)

\* anim.url.includes('fbx') ? 'FBX' : 'Mixamo'
SourceType(url) == IF Includes(url, <<"f", "b", "x">>) THEN "FBX" ELSE "Mixamo"

\* A filter that lets every item through.
EveryItem(prev) == prev

\* prev.filter(item => item.isImported)
ImportedOnly(prev) == SelectSeq(prev, LAMBDA item : item.isImported)

\* A list with the imported items before the new original ones.
ImportedThenOriginal(originalItems, importedOnly) ==
    importedOnly \o originalItems

\* [...originalItems, ...importedOnly]
OriginalThenImported(originalItems, importedOnly) ==
    originalItems \o importedOnly

\* prev.filter(item => !item.isImported)
OriginalOnly(prev) == SelectSeq(prev, LAMBDA item : ~item.isImported)

\* Items that hold the caller's clip objects themselves.
AliasedItems(heap, clipRefs, t) ==
    [ k \in 1..Len(clipRefs) |->
        [ id         |-> OriginalId(k - 1, t),
          name       |-> OriginalName(heap[clipRefs[k]].name, k - 1),
          clip       |-> clipRefs[k],
          isImported |-> FALSE,
          sourceType |-> "none" ] ]

\* clips.map((clip, index) => ({...})): the items made from the caller's
\* clips, the clone of clips[k] being the new object heapSize + k.
OriginalItems(heap, clipRefs, t) ==
    [ k \in 1..Len(clipRefs) |->
        [ id         |-> OriginalId(k - 1, t),
          name       |-> OriginalName(heap[clipRefs[k]].name, k - 1),
          clip       |-> Len(heap) + k,
          isImported |-> FALSE,
          sourceType |-> "none" ] ]

\* The items made by imported.map: item k holds the new object
\* heapSize + k, the clip retargetAnimation returned for it.
ImportedItems(heap, imported) ==
    [ k \in 1..Len(imported) |->
        [ id         |-> imported[k].id,
          name       |-> imported[k].name,
          clip       |-> Len(heap) + k,
          isImported |-> TRUE,
          sourceType |-> SourceType(imported[k].url) ] ]

\* A lookup that takes the first item for any id.
FindFirstItem(prev, id) == IF prev = <<>> THEN {} ELSE {1}

\* prev.find(item => item.id === id), as a set of 0 or 1 positions.
FindItem(prev, id) ==
    LET hits == {k \in 1..Len(prev) : prev[k].id = id}
    IN  IF hits = {} THEN {}
        ELSE {CHOOSE k \in hits : \A j \in hits : k <= j}

\* A map that replaces the found item and the one after it.
ReplaceItemAndNext(prev, id, updatedItem) ==
    [ k \in 1..Len(prev) |->
        IF prev[k].id = id \/ (k > 1 /\ prev[k - 1].id = id)
        THEN updatedItem ELSE prev[k] ]

\* prev.map(item => item.id === id ? updatedItem : item)
ReplaceItem(prev, id, updatedItem) ==
    [k \in 1..Len(prev) |-> IF prev[k].id = id THEN updatedItem ELSE prev[k]]

\* The updater of renameAnimation: the new item list and the new state of
\* the clip objects.
RenameUpdate(prev, heap, id, newName) ==
    LET found == FindItem(prev, id)
    IN  IF found = {} THEN [items |-> prev, heap |-> heap]
        ELSE LET item        == prev[CHOOSE k \in found : TRUE]
                 updatedItem == [item EXCEPT !.name = newName]
             IN  [ items |-> ReplaceItem(prev, id, updatedItem),
                   heap  |-> [heap EXCEPT ![updatedItem.clip].name = newName] ]

\* registryItems.map(item => item.clip)
getAllClips(items) == [k \in 1..Len(items) |-> items[k].clip]

\* registryItems.map(item => item.name)
getAnimationNames(items) == [k \in 1..Len(items) |-> items[k].name]

-----------------------------------------------------------------------------
(* Inputs and operations of the registry *)

MaxOps == 3

RunName == <<"R", "u", "n">>

\* The caller's clip objects 1..6: four clips of loaded models (two of them
\* named Walk, one unnamed) and the clips of two imported animations.
CallerClips ==
    << WalkClip, IdleClip,
       [name |-> Walk, tracks |-> <<SpineQuaternion>>],
       [name |-> <<>>, tracks |-> <<SpineQuaternion>>],
       WalkClip,
       [name |-> RunName, tracks |-> <<HipsQuaternion>>] >>

OriginalClipLists == {<<>>, <<1, 2>>, <<3, 1>>, <<4>>}

\* The bones of the rig the imported animations were made for, the same
\* names as the target's.
SameRig == SubSeq(TargetPool, 1, 6)

\* AnimationImporter gives ids `imported_${Date.now()}_${index}`.
ImportedWalk ==
    [ id |-> <<"i", "m", "p", "o", "r", "t", "e", "d", "_", "1", "_", "0">>, name |-> Walk, clip |-> 5,
      url |-> <<"b", "l", "o", "b", ":", "w", "a", "l", "k", ".", "f", "b", "x">>, sourceRoot |-> Root(<<SkinnedMesh(SameRig)>>) ]

ImportedRun ==
    [ id |-> <<"i", "m", "p", "o", "r", "t", "e", "d", "_", "2", "_", "0">>, name |-> RunName, clip |-> 6,
      url |-> <<"b", "l", "o", "b", ":", "r", "u", "n", ".", "g", "l", "b">>, sourceRoot |-> NoRoot ]

\* An imported file whose skinned mesh has no skeleton.
ImportedPose ==
    [ id |-> <<"i", "m", "p", "o", "r", "t", "e", "d", "_", "3", "_", "0">>, name |-> Idle, clip |-> 2,
      url |-> <<"b", "l", "o", "b", ":", "p", "o", "s", "e", ".", "f", "b", "x">>, sourceRoot |-> Root(<<PlainNode, BareMesh>>) ]

ImportedLists ==
    {<<>>, <<ImportedWalk>>, <<ImportedWalk, ImportedRun>>, <<ImportedRun, ImportedWalk>>,
     <<ImportedPose>>}

RegistryTargets ==
    {NoSkeleton, Skeleton(SameRig), Skeleton(SubSeq(TargetPool, 1, 2))}

NewNames == {<<>>, <<" ", "I", "d", "l", "e", " ">>, Walk, RunName}

MissingId == <<"o", "r", "i", "g", "i", "n", "a", "l", "_", "9", "_", "9">>

ItemIds(items) == {items[k].id : k \in 1..Len(items)}

RegistryIdle ==
    /\ registryItems = "Idle" /\ clipObjects = "Idle"
    /\ now = 0 /\ opCount = 0 /\ lastOp = "Idle"

RegistryInit ==
    /\ revision \in {1, 2}
    /\ registryItems = <<>>
    /\ clipObjects = CallerClips
    /\ now = 0
    /\ opCount = 0
    /\ lastOp = [op |-> "none"]

\* addOriginalAnimations(clips), Date.now() reading t.
AddOriginalAnimations ==
    /\ opCount < MaxOps
    /\ \E clipRefs \in OriginalClipLists, t \in {now, now + 1} :
         LET originalItems == OriginalItems(clipObjects, clipRefs, t)
             cloned == [k \in 1..Len(clipRefs) |-> CloneClip(clipObjects[clipRefs[k]])]
         IN  /\ registryItems' = OriginalThenImported(originalItems,
                                                      ImportedOnly(registryItems))
             /\ clipObjects' = clipObjects \o cloned
             /\ now' = t
             /\ lastOp' = [ op |-> "addOriginal", clips |-> clipRefs,
                            before |-> registryItems, heapBefore |-> clipObjects ]
    /\ opCount' = opCount + 1
    /\ UNCHANGED <<revision, retargetVars, nameVars, procVars, writerVars, pipelineVars>>

\* The outcomes to choose from for one addImportedAnimations call.
CallOutcomes(rev, imported, targetSkeleton) ==
    IF \E k \in 1..Len(imported) :
          OutcomesFor(rev, imported[k].sourceRoot, targetSkeleton) # {NoOutcome}
    THEN RetargetClipOutcomes ELSE {NoOutcome}

\* addImportedAnimations(imported, targetSkeleton); ext is what
\* SkeletonUtils.retargetClip does for the items it is called for.  An
\* exception out of retargetAnimation ends imported.map and the call:
\* setRegistryItems is not reached.
AddImportedAnimations ==
    /\ opCount < MaxOps
    /\ \E imported \in ImportedLists, targetSkeleton \in RegistryTargets :
         \E ext \in CallOutcomes(revision, imported, targetSkeleton) :
            /\ LET results ==
                      [ k \in 1..Len(imported) |->
                          retargetAnimation(revision, clipObjects[imported[k].clip],
                              imported[k].sourceRoot, targetSkeleton, ext) ]
                   importedItems == ImportedItems(clipObjects, imported)
                   threw == \E k \in 1..Len(imported) : results[k].threw
               IN  /\ registryItems' =
                          IF threw THEN registryItems
                          ELSE OriginalOnly(registryItems) \o importedItems
                   /\ clipObjects' =
                          IF threw THEN clipObjects
                          ELSE clipObjects
                                 \o [k \in 1..Len(imported) |-> results[k].clip]
                   /\ lastOp' = [ op |-> "addImported", imported |-> imported,
                                  targetSkeleton |-> targetSkeleton,
                                  ext |-> ext, threw |-> threw,
                                  before |-> registryItems,
                                  heapBefore |-> clipObjects ]
    /\ opCount' = opCount + 1
    /\ UNCHANGED <<revision, now, retargetVars, nameVars, procVars, writerVars, pipelineVars>>

\* renameAnimation(id, newName); it returns true on every path.
RenameAnimation ==
    /\ opCount < MaxOps
    /\ \E id \in ItemIds(registryItems) \cup {MissingId}, newName \in NewNames :
         LET update == RenameUpdate(registryItems, clipObjects, id, newName)
         IN  /\ registryItems' = update.items
             /\ clipObjects' = update.heap
             /\ lastOp' = [ op |-> "rename", id |-> id, newName |-> newName,
                            before |-> registryItems, heapBefore |-> clipObjects,
                            returned |-> TRUE ]
    /\ opCount' = opCount + 1
    /\ UNCHANGED <<revision, now, retargetVars, nameVars, procVars, writerVars, pipelineVars>>

\* removeImportedAnimations()
RemoveImportedAnimations ==
    /\ opCount < MaxOps
    /\ registryItems' = OriginalOnly(registryItems)
    /\ lastOp' = [ op |-> "removeImported", before |-> registryItems,
                   heapBefore |-> clipObjects ]
    /\ opCount' = opCount + 1
    /\ UNCHANGED <<revision, clipObjects, now, retargetVars, nameVars, procVars,
                   writerVars, pipelineVars>>

\* clear()
Clear ==
    /\ opCount < MaxOps
    /\ registryItems' = <<>>
    /\ lastOp' = [ op |-> "clear", before |-> registryItems,
                   heapBefore |-> clipObjects ]
    /\ opCount' = opCount + 1
    /\ UNCHANGED <<revision, clipObjects, now, retargetVars, nameVars, procVars,
                   writerVars, pipelineVars>>

RegistryNext ==
    \/ AddOriginalAnimations
    \/ AddImportedAnimations
    \/ RenameAnimation
    \/ RemoveImportedAnimations
    \/ Clear

HookIdle == revision = 0 /\ RetargetIdle /\ RegistryIdle

-----------------------------------------------------------------------------
(* Scenes                                                                  *)
(*                                                                         *)
(* The objects of a scene, their geometries and their materials are three  *)
(* stores of objects, a reference being a position in its store and 0 no   *)
(* object.  An Object3D is [kind, name, parent, children, geometry,        *)
(* material, skeleton, transform, matrixAutoUpdate]; a BufferGeometry is   *)
(* [position, normal, bounds, disposed], the attributes it has, whether    *)
(* its bounding volumes are computed and whether dispose() was called on   *)
(* it; a material is [name, standard, opacity, transparent, alphaTest],    *)
(* opacity and alphaTest in tenths.                                        *)
(***************************************************************************)

Quote == <<"U+0022">>

RECURSIVE Concat(_)
Concat(seqs) == IF seqs = <<>> THEN <<>> ELSE Head(seqs) \o Concat(Tail(seqs))

\* child instanceof THREE.Mesh (a SkinnedMesh is a Mesh)
IsMesh(object) == object.kind \in {"Mesh", "SkinnedMesh"}

\* child instanceof THREE.SkinnedMesh
IsSkinnedMesh(object) == object.kind = "SkinnedMesh"

\* object.traverse(callback): the object, then its children's subtrees in
\* order, as the list of the objects visited.
RECURSIVE Traverse(_, _)
RECURSIVE TraverseAll(_, _)

Traverse(objs, ref) == <<ref>> \o TraverseAll(objs, objs[ref].children)

TraverseAll(objs, refs) ==
    IF refs = <<>> THEN <<>>
    ELSE Traverse(objs, Head(refs)) \o TraverseAll(objs, Tail(refs))

-----------------------------------------------------------------------------
(* ExportValidator *)

\* `Mesh "${child.name}" has no geometry` and the like.
Quoted(before, name, after) == before \o Quote \o name \o Quote \o after

\* What the traverse callback of validateScene pushes to issues for one
\* object.
SceneIssuesOf(object, geos) ==
    IF ~IsMesh(object) THEN <<>>
    ELSE (IF object.geometry = 0
          THEN <<Quoted(<<"M", "e", "s", "h", " ">>, object.name, <<" ", "h", "a", "s", " ", "n", "o", " ", "g", "e", "o", "m", "e", "t", "r", "y">>)>>
          ELSE IF ~geos[object.geometry].position
          THEN <<Quoted(<<"M", "e", "s", "h", " ">>, object.name, <<" ", "h", "a", "s", " ", "n", "o", " ", "p", "o", "s", "i", "t", "i", "o", "n", " ", "a", "t", "t", "r", "i", "b", "u", "t", "e">>)>>
          ELSE <<>>)
         \o (IF IsSkinnedMesh(object) /\ ~object.skeleton
             THEN <<Quoted(<<"S", "k", "i", "n", "n", "e", "d", "M", "e", "s", "h", " ">>, object.name, <<" ", "h", "a", "s", " ", "n", "o", " ", "s", "k", "e", "l", "e", "t", "o", "n">>)>>
             ELSE <<>>)

\* What the callback pushes to warnings for one object.
SceneWarningsOf(object) ==
    IF IsMesh(object) /\ object.material = 0
    THEN <<Quoted(<<"M", "e", "s", "h", " ">>, object.name, <<" ", "h", "a", "s", " ", "n", "o", " ", "m", "a", "t", "e", "r", "i", "a", "l">>)>>
    ELSE <<>>

\* ExportValidator.validateScene(scene)
validateScene(objs, geos, scene) ==
    IF scene = 0
    THEN [ isValid  |-> FALSE,
           issues   |-> <<<<"S", "c", "e", "n", "e", " ", "i", "s", " ", "n", "u", "l", "l", " ", "o", "r", " ", "u", "n", "d", "e", "f", "i", "n", "e", "d">>>>,
           warnings |-> <<>> ]
    ELSE LET visited      == Traverse(objs, scene)
             hasGeometry  == \E k \in 1..Len(visited) : IsMesh(objs[visited[k]])
             hasMaterials == \E k \in 1..Len(visited) :
                                /\ IsMesh(objs[visited[k]])
                                /\ objs[visited[k]].material # 0
             issues   == Concat([k \in 1..Len(visited) |->
                                    SceneIssuesOf(objs[visited[k]], geos)])
             warnings == Concat([k \in 1..Len(visited) |->
                                    SceneWarningsOf(objs[visited[k]])])
                         \o (IF hasGeometry THEN <<>>
                             ELSE <<<<"S", "c", "e", "n", "e", " ", "c", "o", "n", "t", "a", "i", "n", "s", " ", "n", "o", " ", "g", "e", "o", "m", "e", "t", "r", "y">>>>)
                         \o (IF hasMaterials THEN <<>>
                             ELSE <<<<"S", "c", "e", "n", "e", " ", "c", "o", "n", "t", "a", "i", "n", "s", " ", "n", "o", " ", "m", "a", "t", "e", "r", "i", "a", "l", "s">>>>)
         IN  [isValid |-> issues = <<>>, issues |-> issues, warnings |-> warnings]

\* clip.name || index, within a template literal.
NameOrIndex(clip, index) ==
    IF clip.name # <<>> THEN clip.name ELSE NumberToString(index)

\* track.values.length !== track.times.length * track.getValueSize(): with
\* no key the quotient is Infinity or NaN, the product NaN, and the
\* comparison true.
MismatchedCounts(track) ==
    IF Len(track.times) = 0 THEN TRUE
    ELSE LET expected == ExpectedValueCount(track)
         IN  Len(track.values) * expected.den # expected.num

\* What the callback of clip.tracks.forEach pushes to issues for one track.
TrackIssuesOf(track, trackIndex, clip, index) ==
    LET inAnimation ==
            <<" ", "i", "n", " ", "a", "n", "i", "m", "a", "t", "i", "o", "n", " ">> \o Quote \o NameOrIndex(clip, index) \o Quote
    IN  (IF track.name = <<>>
         THEN <<<<"T", "r", "a", "c", "k", " ">> \o NumberToString(trackIndex) \o inAnimation
                    \o <<" ", "h", "a", "s", " ", "n", "o", " ", "n", "a", "m", "e">>>>
         ELSE <<>>)
        \o (IF Len(track.times) = 0
            THEN <<<<"T", "r", "a", "c", "k", " ">> \o Quote \o track.name \o Quote \o inAnimation
                       \o <<" ", "h", "a", "s", " ", "n", "o", " ", "k", "e", "y", "f", "r", "a", "m", "e", "s">>>>
            ELSE <<>>)
        \o (IF Len(track.values) = 0
            THEN <<<<"T", "r", "a", "c", "k", " ">> \o Quote \o track.name \o Quote \o inAnimation
                       \o <<" ", "h", "a", "s", " ", "n", "o", " ", "v", "a", "l", "u", "e", "s">>>>
            ELSE <<>>)
        \o (IF MismatchedCounts(track)
            THEN <<Quoted(<<"T", "r", "a", "c", "k", " ">>, track.name,
                          <<" ", "h", "a", "s", " ", "m", "i", "s", "m", "a", "t", "c", "h", "e", "d", " ", "t", "i", "m", "e", "s", "/", "v", "a", "l", "u", "e", "s", " ", "c", "o", "u", "n", "t">>)>>
            ELSE <<>>)

\* What the callback of animations.forEach pushes to issues for one clip.
ClipIssuesOf(clip, index) ==
    (IF Len(clip.tracks) = 0
     THEN <<Quoted(<<"A", "n", "i", "m", "a", "t", "i", "o", "n", " ">>, NameOrIndex(clip, index), <<" ", "h", "a", "s", " ", "n", "o", " ", "t", "r", "a", "c", "k", "s">>)>>
     ELSE <<>>)
    \o Concat([t \in 1..Len(clip.tracks) |->
                  TrackIssuesOf(clip.tracks[t], t - 1, clip, index)])

\* What it pushes to warnings.
ClipWarningsOf(clip, index) ==
    IF clip.name = <<>> \/ Trim(clip.name) = <<>>
    THEN <<<<"A", "n", "i", "m", "a", "t", "i", "o", "n", " ">> \o NumberToString(index) \o <<" ", "h", "a", "s", " ", "n", "o", " ", "n", "a", "m", "e">>>>
    ELSE <<>>

\* ExportValidator.validateAnimations(animations); animations is
\* [given, clips], given being false for an absent list.
validateAnimations(anims) ==
    IF ~anims.given \/ Len(anims.clips) = 0
    THEN [ isValid  |-> TRUE,
           issues   |-> <<>>,
           warnings |-> <<<<"N", "o", " ", "a", "n", "i", "m", "a", "t", "i", "o", "n", "s", " ", "t", "o", " ", "e", "x", "p", "o", "r", "t">>>> ]
    ELSE LET issues   == Concat([k \in 1..Len(anims.clips) |->
                                    ClipIssuesOf(anims.clips[k], k - 1)])
             warnings == Concat([k \in 1..Len(anims.clips) |->
                                    ClipWarningsOf(anims.clips[k], k - 1)])
         IN  [isValid |-> issues = <<>>, issues |-> issues, warnings |-> warnings]

\* A result whose flag is true whatever the issues.
AlwaysValid(sceneValidation, animationValidation) ==
    [ isValid  |-> TRUE,
      issues   |-> sceneValidation.issues \o animationValidation.issues,
      warnings |-> sceneValidation.warnings \o animationValidation.warnings ]

\* The result validateForExport builds from the two validations.
CombineValidations(sceneValidation, animationValidation) ==
    [ isValid  |-> sceneValidation.isValid /\ animationValidation.isValid,
      issues   |-> sceneValidation.issues \o animationValidation.issues,
      warnings |-> sceneValidation.warnings \o animationValidation.warnings ]

\* ExportValidator.validateForExport(scene, animations)
validateForExport(objs, geos, scene, anims) ==
    CombineValidations(validateScene(objs, geos, scene), validateAnimations(anims))
-----------------------------------------------------------------------------
(* The scenes and animation lists given to the validator and the exporter *)

\* The most children the root of a generated scene has.
MaxChildren == 2

Geometry(position, normal) ==
    [position |-> position, normal |-> normal, bounds |-> FALSE, disposed |-> FALSE]

\* A MeshStandardMaterial, opacity in tenths.
StandardMaterial(name, opacity, transparent) ==
    [ name |-> name, standard |-> TRUE, opacity |-> opacity,
      transparent |-> transparent, alphaTest |-> 0 ]

\* A material of another class.
BasicMaterial(name) ==
    [ name |-> name, standard |-> FALSE, opacity |-> 10,
      transparent |-> FALSE, alphaTest |-> 0 ]

\* A child of the root before it is put in the stores: its geometry and
\* its material are lists of 0 or 1.
Child(kind, name, geometry, material, skeleton) ==
    [ kind |-> kind, name |-> name, geometry |-> geometry,
      material |-> material, skeleton |-> skeleton ]

Skin == StandardMaterial(<<"S", "k", "i", "n">>, 10, FALSE)

Glass == StandardMaterial(<<>>, 5, FALSE)

ChildTemplates ==
    { Child("Object3D", <<"R", "i", "g">>, <<>>, <<>>, FALSE),
      Child("Mesh", <<"B", "o", "d", "y">>, <<Geometry(TRUE, TRUE)>>, <<Skin>>, FALSE),
      Child("Mesh", <<>>, <<Geometry(TRUE, FALSE)>>, <<Glass>>, FALSE),
      Child("Mesh", <<"P", "r", "o", "p">>, <<Geometry(TRUE, TRUE)>>, <<BasicMaterial(<<"F", "l", "a", "t">>)>>, FALSE),
      Child("Mesh", <<"B", "a", "r", "e">>, <<Geometry(TRUE, TRUE)>>, <<>>, FALSE),
      Child("Mesh", <<"H", "o", "l", "l", "o", "w">>, <<>>, <<Skin>>, FALSE),
      Child("Mesh", <<"C", "l", "o", "u", "d">>, <<Geometry(FALSE, FALSE)>>, <<Skin>>, FALSE),
      Child("SkinnedMesh", <<"H", "e", "r", "o">>, <<Geometry(TRUE, TRUE)>>, <<Skin>>, TRUE),
      Child("SkinnedMesh", <<"L", "i", "m", "p">>, <<Geometry(TRUE, TRUE)>>, <<Skin>>, FALSE) }

\* How many of the first k children bring an object of their own for the
\* field (geometry or material) the flags are about.
CountUpTo(flags, k) == Cardinality({j \in 1..k : flags[j]})

\* The stores of the scene made of a root named Scene and the children; in
\* a looped scene the parent fields of the first two children point at each
\* other.
BuildScene(children, looped) ==
    LET n      == Len(children)
        hasGeo == [k \in 1..n |-> children[k].geometry # <<>>]
        hasMat == [k \in 1..n |-> children[k].material # <<>>]
        root   == [ kind |-> "Object3D", name |-> <<"S", "c", "e", "n", "e">>, parent |-> 0,
                    children |-> [k \in 1..n |-> k + 1],
                    geometry |-> 0, material |-> 0, skeleton |-> FALSE,
                    transform |-> "asLoaded", matrixAutoUpdate |-> TRUE ]
        object(k) ==
            [ kind |-> children[k].kind, name |-> children[k].name,
              parent |-> IF looped /\ k <= 2 THEN 4 - k ELSE 1,
              children |-> <<>>,
              geometry |-> IF hasGeo[k] THEN CountUpTo(hasGeo, k) ELSE 0,
              material |-> IF hasMat[k] THEN CountUpTo(hasMat, k) ELSE 0,
              skeleton |-> children[k].skeleton,
              transform |-> "asLoaded", matrixAutoUpdate |-> TRUE ]
    IN  [ objects    |-> <<root>> \o [k \in 1..n |-> object(k)],
          geometries |-> Concat([k \in 1..n |-> children[k].geometry]),
          materials  |-> Concat([k \in 1..n |-> children[k].material]) ]

InputScenes ==
    { BuildScene(children, FALSE) : children \in SeqsUpTo(ChildTemplates, MaxChildren) }
    \cup { BuildScene(children, TRUE) :
             children \in { <<a, b>> : a, b \in { c \in ChildTemplates :
                                                    c.name \in {<<"R", "i", "g">>, <<"B", "o", "d", "y">>} } } }

\* Tracks with a values array of another length than components per key.
FourForThree == MakeTrack(HipsPosition, 1, 4, TRUE)

FiveForTwoKeys == MakeTrack(HipsPosition, 2, 5, FALSE)

ValidatorClips ==
    { WalkClip,
      [name |-> Idle, tracks |-> <<>>],
      [name |-> <<>>, tracks |-> <<SpineQuaternion>>],
      [name |-> <<" ">>, tracks |-> <<MakeTrack(<<>>, 1, 3, TRUE)>>],
      [name |-> Run, tracks |-> <<MakeTrack(HipsPosition, 0, 0, TRUE)>>],
      [name |-> Run, tracks |-> <<MakeTrack(HipsPosition, 0, 3, TRUE)>>],
      [name |-> Run, tracks |-> <<MakeTrack(HipsPosition, 2, 0, TRUE)>>],
      [name |-> Run, tracks |-> <<MakeTrack(HipsPosition, 2, 6, FALSE)>>],
      [name |-> Run, tracks |-> <<FourForThree>>],
      [name |-> Run, tracks |-> <<SpineQuaternion, FiveForTwoKeys>>],
      [name |-> Run, tracks |-> <<MakeTrack(HipsPosition, 10, 29, TRUE)>>] }

Animations(clips) == [given |-> TRUE, clips |-> clips]

NoAnimations == [given |-> FALSE, clips |-> <<>>]

ValidatorAnimations ==
    {NoAnimations} \cup {Animations(clips) : clips \in SeqsUpTo(ValidatorClips, 2)}

SceneIdle ==
    /\ objects = <<>> /\ geometries = <<>> /\ materials = <<>>
    /\ modelScene = 0 /\ allAnimations = NoAnimations

ValidatorIdle == validation = <<>>

ExportIdle ==
    /\ modelUrl = FALSE /\ exPc = "idle" /\ isExporting = FALSE
    /\ exTrace = <<>> /\ exportScene = 0 /\ exportAnimations = <<>>
    /\ liveBefore = <<>>

\* A scene or no scene, and an animation list or none.
ValidatorInit ==
    /\ \E scene \in InputScenes :
         /\ objects = scene.objects
         /\ geometries = scene.geometries
         /\ materials = scene.materials
    /\ modelScene \in {0, 1}
    /\ allAnimations \in ValidatorAnimations
    /\ validation = <<>>

\* The call ExportValidator.validateScene(modelScene)
ValidateScene ==
    /\ validation = <<>>
    /\ validation' = << [ fn  |-> "validateScene",
                          out |-> validateScene(objects, geometries, modelScene) ] >>
    /\ UNCHANGED <<sceneVars, exportVars, nameVars, procVars, writerVars, hookVars>>

\* The call ExportValidator.validateAnimations(allAnimations)
ValidateAnimations ==
    /\ validation = <<>>
    /\ validation' = << [ fn  |-> "validateAnimations",
                          out |-> validateAnimations(allAnimations) ] >>
    /\ UNCHANGED <<sceneVars, exportVars, nameVars, procVars, writerVars, hookVars>>

\* The call ExportValidator.validateForExport(modelScene, allAnimations)
ValidateForExport ==
    /\ validation = <<>>
    /\ validation' = << [ fn  |-> "validateForExport",
                          out |-> validateForExport(objects, geometries,
                                                    modelScene, allAnimations) ] >>
    /\ UNCHANGED <<sceneVars, exportVars, nameVars, procVars, writerVars, hookVars>>

ValidatorNext ==
    \/ ValidateScene
    \/ ValidateAnimations
    \/ ValidateForExport

-----------------------------------------------------------------------------
(* SceneProcessor: createExportScene and validateSceneHierarchy            *)
(*                                                                         *)
(* A scene is [objects, geometries, materials], the three stores.          *)
(***************************************************************************)

\* The set of the elements of a list.
Range(s) == {s[k] : k \in 1..Len(s)}

\* The place of the object ref in the list of the objects visited.
PlaceIn(visited, ref) == CHOOSE k \in 1..Len(visited) : visited[k] = ref

\* The object that has ref among its children, 0 for the root of the walk.
HolderOf(objs, visited, ref) ==
    IF \E k \in 1..Len(visited) : ref \in Range(objs[visited[k]].children)
    THEN CHOOSE p \in Range(visited) : ref \in Range(objs[p].children)
    ELSE 0

\* skeletonClone(originalScene): a new object for every object of the tree,
\* the clone of the k-th object visited being the new object n + k.  The
\* clone of a mesh holds the geometry and the material of the mesh itself
\* (Mesh.copy assigns source.geometry and source.material).
CloneObjects(objs, root) ==
    LET visited == Traverse(objs, root)
        n       == Len(objs)
        cloneOf(ref) == n + PlaceIn(visited, ref)
    IN  [ k \in 1..Len(visited) |->
            LET source == objs[visited[k]]
                holder == HolderOf(objs, visited, visited[k])
            IN  [ source EXCEPT
                    !.parent   = IF holder = 0 THEN 0 ELSE cloneOf(holder),
                    !.children = [j \in 1..Len(source.children) |->
                                     cloneOf(source.children[j])] ] ]

\* exportScene.position.set(0, 0, 0), rotation.set(0, 0, 0),
\* scale.set(1, 1, 1)
ResetTransform(object) == [object EXCEPT !.transform = "reset"]

\* child.matrixAutoUpdate = true; if (!child.name) child.name =
\* `Object_${child.id}`, the id being the object's reference.
NameObject(object, ref) ==
    [ object EXCEPT
        !.matrixAutoUpdate = TRUE,
        !.name = IF object.name = <<>>
                 THEN <<"O", "b", "j", "e", "c", "t", "_">> \o NumberToString(ref)
                 ELSE object.name ]

\* processMeshForExport on the geometry: computeVertexNormals when there is
\* no normal attribute (it makes one from the positions), then
\* computeBoundingBox and computeBoundingSphere.
ProcessGeometry(geometry) ==
    [ geometry EXCEPT
        !.normal = geometry.normal \/ geometry.position,
        !.bounds = TRUE ]

\* processMaterialForExport(material), the uuid being the reference.
processMaterialForExport(material, ref) ==
    LET named == [ material EXCEPT
                     !.name = IF material.name = <<>>
                              THEN <<"M", "a", "t", "e", "r", "i", "a", "l", "_">> \o NumberToString(ref)
                              ELSE material.name ]
        seen  == IF named.standard /\ named.opacity < 10 /\ ~named.transparent
                 THEN [named EXCEPT !.transparent = TRUE]
                 ELSE named
    IN  IF seen.standard /\ seen.transparent /\ seen.alphaTest = 0
        THEN [seen EXCEPT !.alphaTest = 1]
        ELSE seen

\* The geometries and the materials that the meshes among the objects refs
\* hold.
GeometriesOf(objs, refs) ==
    {objs[r].geometry : r \in {q \in refs : IsMesh(objs[q])}} \ {0}

MaterialsOf(objs, refs) ==
    {objs[r].material : r \in {q \in refs : IsMesh(objs[q])}} \ {0}

\* SceneProcessor.createExportScene(originalScene): the scene after the
\* call and the root of the clone.  processMeshForExport works on
\* mesh.geometry and mesh.material of the clones, and doing it twice (a
\* skinned mesh with a skeleton) changes nothing more.
createExportScene(scene, originalScene) ==
    LET n       == Len(scene.objects)
        cloned  == CloneObjects(scene.objects, originalScene)
        clones  == (n + 1)..(n + Len(cloned))
        named   == [ k \in 1..Len(cloned) |->
                       NameObject(IF k = 1 THEN ResetTransform(cloned[k])
                                  ELSE cloned[k], n + k) ]
        objs    == scene.objects \o named
    IN  [ scene |->
            [ objects    |-> objs,
              geometries |->
                  [ g \in 1..Len(scene.geometries) |->
                      IF g \in GeometriesOf(objs, clones)
                      THEN ProcessGeometry(scene.geometries[g])
                      ELSE scene.geometries[g] ],
              materials  |->
                  [ m \in 1..Len(scene.materials) |->
                      IF m \in MaterialsOf(objs, clones)
                      THEN processMaterialForExport(scene.materials[m], m)
                      ELSE scene.materials[m] ] ],
          root |-> n + 1 ]

\* The while loop of validateSceneHierarchy for one object: whether the
\* walk up the parent fields from parent comes to an object already seen.
RECURSIVE ParentChainLoops(_, _, _)
ParentChainLoops(objs, parent, visited) ==
    IF parent = 0 THEN FALSE
    ELSE IF parent \in visited THEN TRUE
    ELSE ParentChainLoops(objs, objs[parent].parent, visited \cup {parent})

\* SceneProcessor.validateSceneHierarchy(scene)
validateSceneHierarchy(objs, scene) ==
    LET visited == Traverse(objs, scene)
        issues  == Concat([ k \in 1..Len(visited) |->
                      IF ParentChainLoops(objs, objs[visited[k]].parent, {})
                      THEN <<Quoted(<<"C", "i", "r", "c", "u", "l", "a", "r", " ", "r", "e", "f", "e", "r", "e", "n", "c", "e", " ", "d", "e", "t", "e", "c", "t", "e", "d", " ", "i", "n", " ", "o", "b", "j", "e", "c", "t", " ">>,
                                    IF objs[visited[k]].name # <<>>
                                    THEN objs[visited[k]].name
                                    ELSE NumberToString(visited[k]), <<>>)>>
                      ELSE <<>> ])
    IN  [isValid |-> issues = <<>>, issues |-> issues]

-----------------------------------------------------------------------------
(* ModelOptimizer *)

\* optimizeGeometry(geometry): mergeVertices builds a new geometry; the
\* normals and the bounding volumes are computed on it.
optimizeGeometry(geometry) ==
    [ position |-> geometry.position,
      normal   |-> geometry.normal \/ geometry.position,
      bounds   |-> TRUE,
      disposed |-> FALSE ]

\* optimizeMaterial(material)
optimizeMaterial(material) ==
    IF material.standard
    THEN [ material EXCEPT
             !.transparent = material.opacity < 10,
             !.alphaTest   = IF material.opacity < 10 THEN 1 ELSE 0 ]
    ELSE material

\* The callback of scene.traverse in optimizeScene for the object ref: the
\* geometry the mesh holds is disposed and the new one put in its place.
OptimizeObject(scene, ref) ==
    LET child == scene.objects[ref]
        geos  == IF child.geometry = 0 THEN scene.geometries
                 ELSE Append([scene.geometries EXCEPT
                                 ![child.geometry].disposed = TRUE],
                             optimizeGeometry(scene.geometries[child.geometry]))
        mats  == IF child.material = 0 THEN scene.materials
                 ELSE [scene.materials EXCEPT ![child.material] =
                          optimizeMaterial(scene.materials[child.material])]
    IN  IF ~IsMesh(child) THEN scene
        ELSE [ objects    |-> [scene.objects EXCEPT
                                  ![ref].geometry = IF child.geometry = 0 THEN 0
                                                    ELSE Len(geos),
                                  ![ref].matrixAutoUpdate = FALSE],
               geometries |-> geos,
               materials  |-> mats ]

RECURSIVE OptimizeObjects(_, _)
OptimizeObjects(scene, refs) ==
    IF refs = <<>> THEN scene
    ELSE OptimizeObjects(OptimizeObject(scene, Head(refs)), Tail(refs))

\* ModelOptimizer.optimizeScene(scene)
optimizeScene(scene, root) == OptimizeObjects(scene, Traverse(scene.objects, root))

\* The callback of animations.map in optimizeAnimations.
OptimizeClip(clip) ==
    LET kept == SelectSeq(clip.tracks, LAMBDA track : Len(track.times) > 1)
    IN  [clip EXCEPT !.tracks = [k \in 1..Len(kept) |-> OptimizeTrack(kept[k])]]

\* ModelOptimizer.optimizeAnimations(animations): it returns unless
\* optimize() of a track with more than one key does not.
optimizeAnimations(clips) ==
    IF \E c \in 1..Len(clips) : \E k \in 1..Len(clips[c].tracks) :
          /\ Len(clips[c].tracks[k].times) > 1
          /\ ~OptimizeReturns(clips[c].tracks[k])
    THEN [status |-> "diverged", clips |-> clips]
    ELSE [ status |-> "returned",
           clips  |-> [c \in 1..Len(clips) |-> OptimizeClip(clips[c])] ]

-----------------------------------------------------------------------------
(* ModelExporter.exportModel                                               *)
(*                                                                         *)
(* exPc is the statement the run is at: "idle" before the call, then       *)
(* "validate", "hierarchy", "createScene", "processAnimations",            *)
(* "optimizeScene", "optimizeAnimations", "export", "download", with       *)
(* "catch" and "finally" for the two handlers, "done" after the return and *)
(* "hung" when a call does not return.  exTrace lists the calls made and   *)
(* the toasts shown.                                                       *)
(***************************************************************************)

\* A check that lets every validation through.
StopsOnNothing(result) == FALSE

\* if (!validation.isValid) { toast.error(...); return; }
StopsOnIssues(result) == ~result.isValid

TheScene == [objects |-> objects, geometries |-> geometries, materials |-> materials]

RunClip == [name |-> Run, tracks |-> <<MakeTrack(HipsPosition, 2, 6, FALSE)>>]

\* Clips for the export: sound ones, one without a name, one without
\* tracks, one with a track without keys, and one whose track has 5 values
\* for 2 keys.
ExportClips ==
    { WalkClip, RunClip,
      [name |-> <<>>, tracks |-> <<SpineQuaternion>>],
      [name |-> Idle, tracks |-> <<>>],
      [name |-> Run, tracks |-> <<MakeTrack(HipsPosition, 0, 0, TRUE)>>],
      [name |-> Run, tracks |-> <<FiveForTwoKeys>>] }

ExportAnimations ==
    {Animations(clips) : clips \in SeqsUpTo(ExportClips, 1)}
        \cup {Animations(<<RunClip, c>>) : c \in ExportClips}

ExportInit ==
    /\ \E scene \in InputScenes :
         /\ objects = scene.objects
         /\ geometries = scene.geometries
         /\ materials = scene.materials
    /\ modelScene \in {0, 1}
    /\ allAnimations \in ExportAnimations
    /\ validation = <<>>
    /\ modelUrl \in BOOLEAN
    /\ exPc = "idle"
    /\ isExporting = FALSE
    /\ exTrace = <<>>
    /\ exportScene = 0
    /\ exportAnimations = <<>>
    /\ liveBefore = <<>>

\* The call of exportModel up to setIsExporting(true): without a scene or
\* a url it reports and returns.
ExportModelStart ==
    /\ exPc = "idle"
    /\ liveBefore' = << [ scene |-> TheScene, animations |-> allAnimations ] >>
    /\ IF modelScene = 0 \/ ~modelUrl
       THEN /\ exTrace' = Append(exTrace, "toast.error")
            /\ exPc' = "done"
            /\ UNCHANGED isExporting
       ELSE /\ isExporting' = TRUE
            /\ exPc' = "validate"
            /\ UNCHANGED exTrace
    /\ UNCHANGED <<sceneVars, validation, modelUrl, exportScene, exportAnimations,
                   nameVars, procVars, writerVars, hookVars>>

\* ExportValidator.validateForExport and the two ifs on its result.
ExportValidate ==
    /\ exPc = "validate"
    /\ LET result == validateForExport(objects, geometries, modelScene,
                                       allAnimations)
       IN  /\ validation' = <<[fn |-> "validateForExport", out |-> result]>>
           /\ IF StopsOnIssues(result)
              THEN /\ exTrace' = exTrace \o <<"validateForExport", "toast.error">>
                   /\ exPc' = "finally"
              ELSE /\ exTrace' = exTrace \o <<"validateForExport">>
                                   \o (IF result.warnings # <<>>
                                       THEN <<"toast.warning">> ELSE <<>>)
                   /\ exPc' = "hierarchy"
    /\ UNCHANGED <<sceneVars, modelUrl, isExporting, exportScene, exportAnimations,
                   liveBefore, nameVars, procVars, writerVars, hookVars>>

\* SceneProcessor.validateSceneHierarchy and the if on its result.
ExportValidateHierarchy ==
    /\ exPc = "hierarchy"
    /\ IF validateSceneHierarchy(objects, modelScene).isValid
       THEN /\ exTrace' = exTrace \o <<"validateSceneHierarchy">>
            /\ exPc' = "createScene"
       ELSE /\ exTrace' = exTrace \o <<"validateSceneHierarchy", "toast.error">>
            /\ exPc' = "finally"
    /\ UNCHANGED <<sceneVars, validation, modelUrl, isExporting, exportScene,
                   exportAnimations, liveBefore, nameVars, procVars, writerVars,
                   hookVars>>

\* const exportScene = SceneProcessor.createExportScene(modelScene)
ExportCreateScene ==
    /\ exPc = "createScene"
    /\ LET made == createExportScene(TheScene, modelScene)
       IN  /\ objects' = made.scene.objects
           /\ geometries' = made.scene.geometries
           /\ materials' = made.scene.materials
           /\ exportScene' = made.root
    /\ exTrace' = Append(exTrace, "createExportScene")
    /\ exPc' = "processAnimations"
    /\ UNCHANGED <<modelScene, allAnimations, validation, modelUrl, isExporting,
                   exportAnimations, liveBefore, nameVars, procVars, writerVars,
                   hookVars>>

\* const exportAnimations =
\*   SceneProcessor.processAnimationsForExport(allAnimations)
ExportProcessAnimations ==
    /\ exPc = "processAnimations"
    /\ LET made == processAnimationsForExport(allAnimations.clips)
       IN  /\ exportAnimations' = made.clips
           /\ exPc' = CASE made.status = "returned" -> "optimizeScene"
                        [] made.status = "threw"    -> "catch"
                        [] OTHER                    -> "hung"
    /\ exTrace' = Append(exTrace, "processAnimationsForExport")
    /\ UNCHANGED <<sceneVars, validation, modelUrl, isExporting, exportScene,
                   liveBefore, nameVars, procVars, writerVars, hookVars>>

\* ModelOptimizer.optimizeScene(exportScene)
ExportOptimizeScene ==
    /\ exPc = "optimizeScene"
    /\ LET made == optimizeScene(TheScene, exportScene)
       IN  /\ objects' = made.objects
           /\ geometries' = made.geometries
           /\ materials' = made.materials
    /\ exTrace' = Append(exTrace, "optimizeScene")
    /\ exPc' = "optimizeAnimations"
    /\ UNCHANGED <<modelScene, allAnimations, validation, modelUrl, isExporting,
                   exportScene, exportAnimations, liveBefore, nameVars, procVars,
                   writerVars, hookVars>>

\* const optimizedAnimations =
\*   ModelOptimizer.optimizeAnimations(exportAnimations)
ExportOptimizeAnimations ==
    /\ exPc = "optimizeAnimations"
    /\ LET made == optimizeAnimations(exportAnimations)
       IN  /\ exportAnimations' = made.clips
           /\ exPc' = IF made.status = "returned" THEN "export" ELSE "hung"
    /\ exTrace' = Append(exTrace, "optimizeAnimations")
    /\ UNCHANGED <<sceneVars, validation, modelUrl, isExporting, exportScene,
                   liveBefore, nameVars, procVars, writerVars, hookVars>>

\* const result = FBXExporter.export(exportScene, optimizedAnimations): it
\* works on a clone of its own, and returns the bytes or throws.
ExportFbx ==
    /\ exPc = "export"
    /\ exTrace' = Append(exTrace, "FBXExporter.export")
    /\ \E outcome \in {"returned", "threw"} :
         exPc' = IF outcome = "returned" THEN "download" ELSE "catch"
    /\ UNCHANGED <<sceneVars, validation, modelUrl, isExporting, exportScene,
                   exportAnimations, liveBefore, nameVars, procVars, writerVars,
                   hookVars>>

\* The blob, the click on the download link, and toast.success.
ExportDownload ==
    /\ exPc = "download"
    /\ exTrace' = exTrace \o <<"download", "toast.success">>
    /\ exPc' = "finally"
    /\ UNCHANGED <<sceneVars, validation, modelUrl, isExporting, exportScene,
                   exportAnimations, liveBefore, nameVars, procVars, writerVars,
                   hookVars>>

\* catch (error) { ...; toast.error(...) }
ExportCatch ==
    /\ exPc = "catch"
    /\ exTrace' = Append(exTrace, "toast.error")
    /\ exPc' = "finally"
    /\ UNCHANGED <<sceneVars, validation, modelUrl, isExporting, exportScene,
                   exportAnimations, liveBefore, nameVars, procVars, writerVars,
                   hookVars>>

\* finally { setIsExporting(false) }
ExportFinally ==
    /\ exPc = "finally"
    /\ isExporting' = FALSE
    /\ exPc' = "done"
    /\ UNCHANGED <<sceneVars, validation, modelUrl, exTrace, exportScene,
                   exportAnimations, liveBefore, nameVars, procVars, writerVars,
                   hookVars>>

ExportNext ==
    \/ ExportModelStart
    \/ ExportValidate
    \/ ExportValidateHierarchy
    \/ ExportCreateScene
    \/ ExportProcessAnimations
    \/ ExportOptimizeScene
    \/ ExportOptimizeAnimations
    \/ ExportFbx
    \/ ExportDownload
    \/ ExportCatch
    \/ ExportFinally

-----------------------------------------------------------------------------
(* SceneProcessor.validateSceneHierarchy called with a hierarchy           *)
(*                                                                         *)
(* Object3D.add sets the parent field of the object added and appends it   *)
(* to the children list, after taking it out of the children of its former *)
(* parent; it refuses only to add an object to itself.  A parent chain     *)
(* that loops is therefore made by adding an ancestor to a descendant, and *)
(* then the children lists loop as well; or by assigning parent fields.    *)
(***************************************************************************)

\* Whether the recursion of traverse from ref comes back to an object it is
\* in: it then goes on until the call stack is used up, and a RangeError is
\* thrown.
RECURSIVE TraverseOverflows(_, _, _)
TraverseOverflows(objs, ref, path) ==
    \/ ref \in path
    \/ \E k \in 1..Len(objs[ref].children) :
          TraverseOverflows(objs, objs[ref].children[k], path \cup {ref})

\* root.add(a); a.add(root): the root and its child are each other's parent
\* and child.
AddedToChild ==
    LET scene == BuildScene(<<Child("Object3D", <<"R", "i", "g">>, <<>>, <<>>, FALSE)>>, FALSE)
    IN  [scene EXCEPT !.objects[1].parent = 2, !.objects[2].children = <<1>>]

\* root.add(a); root.add(b); b.add(root): the root is below its second
\* child.
AddedToSecondChild ==
    LET scene == BuildScene(<<Child("Mesh", <<"B", "o", "d", "y">>, <<Geometry(TRUE, TRUE)>>, <<Skin>>, FALSE),
                              Child("Object3D", <<"R", "i", "g">>, <<>>, <<>>, FALSE)>>, FALSE)
    IN  [scene EXCEPT !.objects[1].parent = 3, !.objects[3].children = <<1>>]

\* The hierarchies with a loop that add builds.
LoopedByAdd == {AddedToChild, AddedToSecondChild}

HierarchyInit ==
    /\ \E scene \in InputScenes \cup LoopedByAdd :
         /\ objects = scene.objects
         /\ geometries = scene.geometries
         /\ materials = scene.materials
    /\ modelScene = 1
    /\ allAnimations = NoAnimations
    /\ validation = <<>>

\* The call SceneProcessor.validateSceneHierarchy(modelScene): out holds
\* the result returned, and nothing when the call threw.
ValidateSceneHierarchy ==
    /\ validation = <<>>
    /\ validation' =
         IF TraverseOverflows(objects, modelScene, {})
         THEN << [ fn |-> "validateSceneHierarchy", threw |-> TRUE, out |-> <<>> ] >>
         ELSE << [ fn |-> "validateSceneHierarchy", threw |-> FALSE,
                   out |-> <<validateSceneHierarchy(objects, modelScene)>> ] >>
    /\ UNCHANGED <<sceneVars, exportVars, nameVars, procVars, writerVars, hookVars>>

HierarchyNext == ValidateSceneHierarchy

-----------------------------------------------------------------------------
(* FBXExporter.createComprehensiveFBXNodes: Objects and Connections        *)
(*                                                                         *)
(* The node list holds, before the Objects node, sections that are the     *)
(* same for every scene (header extension, global settings, documents,     *)
(* references, definitions) and carry no object id; they are left out, as  *)
(* are the children of a Model, Geometry or Material node, which carry     *)
(* none either.  The scene given is the clone export() makes, in which the *)
(* parent of an object is the object that holds it as a child.  The        *)
(* exporter of part_003 builds the same Objects section (createObjects)    *)
(* and a Connections section of one fixed record (createConnections).      *)
(***************************************************************************)

\* let objectId = 1000000
FirstObjectId == 1000000

\* The traverse of the Objects section from the objects `visited` on, with
\* objectId the next id: each object visited takes an id, and a mesh with a
\* geometry takes two more, for its geometry and for its material.
RECURSIVE AssignIds(_, _, _)
AssignIds(objs, visited, objectId) ==
    IF visited = <<>> THEN <<>>
    ELSE LET object == objs[Head(visited)]
             mesh   == IsMesh(object) /\ object.geometry # 0
         IN  <<[ref |-> Head(visited), id |-> objectId, mesh |-> mesh]>>
             \o AssignIds(objs, Tail(visited),
                          objectId + (IF mesh THEN 3 ELSE 1))

ModelNode(object, id) ==
    Node(<<"M", "o", "d", "e", "l">>,
         <<PropL(id),
           PropS(<<"M", "o", "d", "e", "l", ":", ":">> \o (IF object.name # <<>> THEN object.name ELSE <<"M", "e", "s", "h">>)),
           PropS(<<"M", "e", "s", "h">>)>>,
         <<>>)

GeometryNode(geomId) ==
    Node(<<"G", "e", "o", "m", "e", "t", "r", "y">>, <<PropL(geomId), PropS(<<"G", "e", "o", "m", "e", "t", "r", "y", ":", ":">>), PropS(<<"M", "e", "s", "h">>)>>, <<>>)

MaterialNode(materialId) ==
    Node(<<"M", "a", "t", "e", "r", "i", "a", "l">>,
         <<PropL(materialId), PropS(<<"M", "a", "t", "e", "r", "i", "a", "l", ":", ":", "D", "e", "f", "a", "u", "l", "t", "M", "a", "t", "e", "r", "i", "a", "l">>), PropS(<<>>)>>,
         <<>>)

\* What the traverse callback pushes to objectsNode.children for one object:
\* nothing unless it is a mesh with a geometry; the Geometry node only if
\* the geometry has positions, or in every case (createObjects).
ObjectNodesOf(object, geos, entry, always) ==
    IF ~entry.mesh THEN <<>>
    ELSE <<ModelNode(object, entry.id)>>
         \o (IF always \/ geos[object.geometry].position
             THEN <<GeometryNode(entry.id + 1)>> ELSE <<>>)
         \o <<MaterialNode(entry.id + 2)>>

\* The Objects node.
ObjectsNode(objs, geos, assigned, always) ==
    Node(<<"O", "b", "j", "e", "c", "t", "s">>, <<>>,
         Concat([k \in 1..Len(assigned) |->
                    ObjectNodesOf(objs[assigned[k].ref], geos, assigned[k], always)]))

ConnectionNode(id, parentId) ==
    Node(<<"C">>, <<PropS(<<"O", "O">>), PropL(id), PropL(parentId)>>, <<>>)

\* The id the map holds for the object ref.
IdOf(assigned, ref) ==
    assigned[CHOOSE k \in 1..Len(assigned) : assigned[k].ref = ref].id

\* The second traverse: a record for every object that has an id and a
\* parent, with objectMap.get(object.parent) || 0 as the parent's id.
ConnectionsNode(objs, visited, assigned) ==
    Node(<<"C", "o", "n", "n", "e", "c", "t", "i", "o", "n", "s">>, <<>>,
         Concat([k \in 1..Len(visited) |->
                    LET holder == HolderOf(objs, visited, visited[k])
                    IN  IF holder = 0 THEN <<>>
                        ELSE <<ConnectionNode(IdOf(assigned, visited[k]),
                                              IdOf(assigned, holder))>>]))

\* createConnections of part_003: the record of 1000000 and the root 0.
createConnections ==
    Node(<<"C", "o", "n", "n", "e", "c", "t", "i", "o", "n", "s">>, <<>>, <<ConnectionNode(FirstObjectId, 0)>>)

\* The Objects and the Connections node of createComprehensiveFBXNodes for
\* the scene, animations being empty.
createComprehensiveFBXNodes(objs, geos, scene) ==
    LET visited  == Traverse(objs, scene)
        assigned == AssignIds(objs, visited, FirstObjectId)
    IN  << ObjectsNode(objs, geos, assigned, FALSE),
           ConnectionsNode(objs, visited, assigned) >>

\* The Objects and the Connections node the exporter of part_003 builds.
createFBXBinary(objs, geos, scene) ==
    LET visited  == Traverse(objs, scene)
        assigned == AssignIds(objs, visited, FirstObjectId)
    IN  <<ObjectsNode(objs, geos, assigned, TRUE), createConnections>>

\* A scene whose children lists form a tree, to build the nodes of.
BuilderInit ==
    /\ \E scene \in InputScenes :
         /\ objects = scene.objects
         /\ geometries = scene.geometries
         /\ materials = scene.materials
    /\ modelScene = 1
    /\ allAnimations = NoAnimations
    /\ validation = <<>>

\* The call of createComprehensiveFBXNodes from createValidFBXBinary.
CreateComprehensiveFBXNodes ==
    /\ fbxNodes = <<>>
    /\ fbxNodes' = createComprehensiveFBXNodes(objects, geometries, modelScene)
    /\ UNCHANGED <<wrStatus, wrBuffer, wrVariant, sceneVars, validation, exportVars,
                   nameVars, procVars, hookVars>>

\* The nodes createFBXBinary of part_003 hands to its writer.
CreateFBXBinary ==
    /\ fbxNodes = <<>>
    /\ fbxNodes' = createFBXBinary(objects, geometries, modelScene)
    /\ UNCHANGED <<wrStatus, wrBuffer, wrVariant, sceneVars, validation, exportVars,
                   nameVars, procVars, hookVars>>

BuilderNext ==
    \/ CreateComprehensiveFBXNodes
    \/ CreateFBXBinary

-----------------------------------------------------------------------------
(* Specifications *)

InitNames ==
    NamesInit /\ ProcIdle /\ WriterIdle /\ HookIdle
        /\ SceneIdle /\ ValidatorIdle /\ ExportIdle

SpecNames == InitNames /\ [][NamesNext]_vars

InitProc ==
    ProcInit /\ NamesIdle /\ WriterIdle /\ HookIdle
        /\ SceneIdle /\ ValidatorIdle /\ ExportIdle

SpecProc == InitProc /\ [][ProcNext]_vars

InitWriter ==
    WriterInit /\ NamesIdle /\ ProcIdle /\ HookIdle
        /\ SceneIdle /\ ValidatorIdle /\ ExportIdle

SpecWriter == InitWriter /\ [][WriterNext]_vars

InitRetarget ==
    RetargetInit /\ RegistryIdle /\ NamesIdle /\ ProcIdle /\ WriterIdle
        /\ SceneIdle /\ ValidatorIdle /\ ExportIdle

SpecRetarget == InitRetarget /\ [][RetargetNext]_vars

InitRegistry ==
    RegistryInit /\ RetargetIdle /\ NamesIdle /\ ProcIdle /\ WriterIdle
        /\ SceneIdle /\ ValidatorIdle /\ ExportIdle

SpecRegistry == InitRegistry /\ [][RegistryNext]_vars

InitValidator ==
    ValidatorInit /\ ExportIdle /\ NamesIdle /\ ProcIdle /\ WriterIdle /\ HookIdle

SpecValidator == InitValidator /\ [][ValidatorNext]_vars

InitExport ==
    ExportInit /\ NamesIdle /\ ProcIdle /\ WriterIdle /\ HookIdle

SpecExport == InitExport /\ [][ExportNext]_vars

\* exportModel has no await: once called it runs on, statement after
\* statement, as long as the statement it is at returns or throws.
SpecExportFair == SpecExport /\ WF_vars(ExportNext)

InitBuilder ==
    BuilderInit /\ WriterIdle /\ ExportIdle /\ NamesIdle /\ ProcIdle /\ HookIdle

SpecBuilder == InitBuilder /\ [][BuilderNext]_vars

InitHierarchy ==
    HierarchyInit /\ ExportIdle /\ NamesIdle /\ ProcIdle /\ WriterIdle /\ HookIdle

SpecHierarchy == InitHierarchy /\ [][HierarchyNext]_vars

-----------------------------------------------------------------------------
(* Properties *)

\* C1: after any sequence of addOriginalAnimations, addImportedAnimations
\* and renameAnimation calls the names of the registry's items are pairwise
\* distinct; with the native clips Walk and Idle loaded and an imported
\* animation named Walk added, the two Walk items carry different names.
C1_NamesPairwiseDistinct ==
    \A i, j \in 1..Len(registryItems) :
        i # j => registryItems[i].name # registryItems[j].name

\* C2: generateUniqueName never returns a name that was a member of the
\* set in use at the moment of the call, also when the unnumbered candidate
\* and every numbered variant 1..99 are already in the set.
C2_ResultNotInUsed ==
    \A k \in 1..Len(nameCalls) : nameCalls[k].result \notin nameCalls[k].before

\* C3: two consecutive generateUniqueName calls with the same base name,
\* the same origin flag and the same set object return different names,
\* whatever the set held at first.
C3_ConsecutiveCallsDiffer ==
    \A k \in 1..(Len(nameCalls) - 1) :
        ( /\ nameCalls[k].baseName = nameCalls[k + 1].baseName
          /\ nameCalls[k].isImported = nameCalls[k + 1].isImported
          /\ nameCalls[k].given = nameCalls[k + 1].given )
            => nameCalls[k].result # nameCalls[k + 1].result

\* C4: every track of every clip processAnimationsForExport returns has
\* values.length = times.length * valueSize, valueSize being the number of
\* components of the property the track animates.
C4_ReturnedTracksAreWhole ==
    procStatus = "returned" =>
        \A c \in 1..Len(procClips) :
            \A k \in 1..Len(procClips[c].tracks) :
                LET track == procClips[c].tracks[k]
                IN  Len(track.values) = Len(track.times) * componentCount(track)

\* What C5 asks of one clip's tracks: a named track with keys whose values
\* array is too long is cut to times.length * valueSize values, one whose
\* array is too short is removed; what is kept is then optimized.
CutToSize(track) ==
    [track EXCEPT !.values =
        SubSeq(track.values, 1, Len(track.times) * componentCount(track))]

TracksAskedFor(clip) ==
    LET kept == SelectSeq(clip.tracks,
                    LAMBDA t : Len(t.values) >= Len(t.times) * componentCount(t))
    IN  [k \in 1..Len(kept) |-> OptimizeTrack(CutToSize(kept[k]))]

WellFormedInput ==
    \A c \in 1..Len(animations) :
        \A k \in 1..Len(animations[c].tracks) :
            /\ animations[c].tracks[k].name # <<>>
            /\ Len(animations[c].tracks[k].times) > 0

\* C5: in processAnimationsForExport a track with more values than
\* times.length * valueSize is kept with its values cut to exactly the
\* first times.length * valueSize (31 values for 10 keys of size 3 become
\* 30), and a track with fewer values (29) is removed from its clip.
C5_LongCutShortRemoved ==
    (procStatus # "none" /\ WellFormedInput) =>
        /\ procStatus = "returned"
        /\ [c \in 1..Len(procClips) |-> procClips[c].tracks]
             = SelectSeq([c \in 1..Len(animations) |-> TracksAskedFor(animations[c])],
                         LAMBDA tracks : tracks # <<>>)

\* The serialized size of a property and of a node, from the record layout:
\* a node is a 13-byte header (end offset, property count, property list
\* length, name length), its name, its properties and its children.
PropertySize(prop) ==
    CASE prop.type = "S" -> 5 + Len(prop.value)
      [] prop.type = "I" -> 5
      [] prop.type = "L" -> 9
      [] prop.type = "D" -> 9
      [] prop.type = "d" -> 13 + 8 * ArrayLength(prop)
      [] prop.type = "i" -> 13 + 4 * Len(prop.value)

RECURSIVE PropertiesSize(_)
PropertiesSize(props) ==
    IF props = <<>> THEN 0
    ELSE PropertySize(Head(props)) + PropertiesSize(Tail(props))

RECURSIVE NodeSize(_)
RECURSIVE NodesSize(_)

NodeSize(node) ==
    13 + Len(node.name) + PropertiesSize(node.properties) + NodesSize(node.children)

NodesSize(nodes) ==
    IF nodes = <<>> THEN 0 ELSE NodeSize(Head(nodes)) + NodesSize(Tail(nodes))

\* The top-level nodes that are written, the first being written at offset
\* start: the loop over them ends after the node that ends within the
\* safety margin of the buffer's end.
RECURSIVE NodesWritten(_, _)
NodesWritten(nodes, start) ==
    IF nodes = <<>> THEN <<>>
    ELSE IF start + NodeSize(Head(nodes)) >= bufferSize - SafetyMargin
    THEN <<Head(nodes)>>
    ELSE <<Head(nodes)>> \o NodesWritten(Tail(nodes), start + NodeSize(Head(nodes)))

\* Every node of the list written from offset start on, and every
\* descendant, holds in its first 4 bytes the offset of the byte after it.
RECURSIVE EndOffsetsRight(_, _, _)
EndOffsetsRight(view, start, nodes) ==
    \/ nodes = <<>>
    \/ LET node == Head(nodes)
           end  == start + NodeSize(node)
       IN  /\ U32At(view, start) = end
           /\ EndOffsetsRight(view,
                  start + 13 + Len(node.name) + PropertiesSize(node.properties),
                  node.children)
           /\ EndOffsetsRight(view, end, Tail(nodes))

\* C6: for every node written, at any depth, the value back-patched into
\* its end-offset slot is the cursor position right after the node's
\* properties and all its descendants, so that end offset minus start
\* offset is the node's serialized length.
C6_EndOffsetIsCursorAfterNode ==
    wrStatus = "returned" =>
        EndOffsetsRight(wrBuffer, Len(headerString) + 4,
                        NodesWritten(fbxNodes, Len(headerString) + 4))

\* Node A without properties and with the one child B holding the int32 5
\* was written: A starts at 27 and ends at 60, after all of B.
C6_NestedNodeWritten ==
    /\ wrStatus = "returned"
    /\ fbxNodes = <<Node(<<"A">>, <<>>, <<LeafB>>)>>
    /\ U32At(wrBuffer, 27) = 60
    /\ U32At(wrBuffer, 41) = 60

\* C7: whenever the bone mapping retargetAnimation built has fewer entries
\* than the code requires (more than 3, more than 5 in revision 2),
\* SkeletonUtils.retargetClip is not called and the result is a clone of the
\* source clip: the same name, as many tracks, the same track names.
C7_BelowThresholdClones ==
    \A k \in 1..Len(rtResult) :
        LET out    == rtResult[k].out
            source == rtInput.sourceClip
        IN  (out.mapped >= 0 /\ out.mapped < (IF revision = 1 THEN 4 ELSE 6)) =>
                /\ ~out.called
                /\ out.clip.name = source.name
                /\ Len(out.clip.tracks) = Len(source.tracks)
                /\ \A t \in 1..Len(source.tracks) :
                     out.clip.tracks[t].name = source.tracks[t].name

\* A mapping of exactly 3 bones was built in revision 1, and the call
\* returned without calling retargetClip.
C7_ThreeBonesMapped ==
    /\ revision = 1
    /\ Len(rtResult) = 1
    /\ rtResult[1].out.mapped = 3
    /\ ~rtResult[1].out.called
    /\ Len(rtResult[1].out.clip.tracks) = 2

\* The items of one partition, with the state of their clip objects.
PartitionOf(items, heap, imported) ==
    LET part == SelectSeq(items, LAMBDA item : item.isImported = imported)
    IN  [k \in 1..Len(part) |-> [item |-> part[k], clip |-> heap[part[k].clip]]]

ClipRefs(items, imported) ==
    {items[k].clip : k \in {j \in 1..Len(items) : items[j].isImported = imported}}

\* C8: addOriginalAnimations replaces exactly the native partition and
\* addImportedAnimations exactly the imported one: after the call the other
\* partition holds the same items (ids, names, clip objects) in the same
\* order, and no item the replaced partition held before the call remains.
C8_OnlyOwnPartitionReplaced ==
    lastOp.op \in {"addOriginal", "addImported"} =>
        LET own == (lastOp.op = "addImported")
        IN  /\ PartitionOf(registryItems, clipObjects, ~own)
                 = PartitionOf(lastOp.before, lastOp.heapBefore, ~own)
            /\ ClipRefs(registryItems, own) \cap ClipRefs(lastOp.before, own) = {}
            /\ \A r \in ClipRefs(registryItems, own) : r > Len(lastOp.heapBefore)

\* addOriginalAnimations was called on a registry holding native and
\* imported items, and put new native items before the imported ones.
C8_NativeReplacedImportedKept ==
    /\ lastOp.op = "addOriginal"
    /\ ClipRefs(lastOp.before, FALSE) # {}
    /\ ClipRefs(lastOp.before, TRUE) # {}
    /\ ClipRefs(registryItems, FALSE) # {}
    /\ ClipRefs(registryItems, TRUE) = ClipRefs(lastOp.before, TRUE)

\* C9: renameAnimation trims newName before use, and when the trimmed name
\* is empty the item keeps its name: the record's name and the clip's name
\* are left as they were.
C9_RenameTrimsAndKeepsOnEmpty ==
    lastOp.op = "rename" =>
        \A k \in 1..Len(lastOp.before) :
            lastOp.before[k].id = lastOp.id =>
                LET trimmed == Trim(lastOp.newName)
                    clip    == lastOp.before[k].clip
                IN  IF trimmed = <<>>
                    THEN /\ registryItems[k].name = lastOp.before[k].name
                         /\ clipObjects[clip].name = lastOp.heapBefore[clip].name
                    ELSE /\ registryItems[k].name = trimmed
                         /\ clipObjects[clip].name = trimmed

\* C10: renameAnimation on an existing id changes exactly one item, the one
\* with that id: afterwards its record name and its clip's name are equal,
\* and every other item's id, name, clip and position are as before.
C10_RenameChangesOneItem ==
    (lastOp.op = "rename" /\ lastOp.id \in ItemIds(lastOp.before)) =>
        /\ Len(registryItems) = Len(lastOp.before)
        /\ Cardinality({k \in 1..Len(lastOp.before) :
                           lastOp.before[k].id = lastOp.id}) = 1
        /\ \A k \in 1..Len(lastOp.before) :
             IF lastOp.before[k].id = lastOp.id
             THEN /\ registryItems[k].id = lastOp.id
                  /\ registryItems[k].clip = lastOp.before[k].clip
                  /\ registryItems[k].name = clipObjects[registryItems[k].clip].name
             ELSE /\ registryItems[k] = lastOp.before[k]
                  /\ clipObjects[registryItems[k].clip]
                       = lastOp.heapBefore[registryItems[k].clip]

\* The first of three items was renamed to a name it did not have, with
\* an item after it.
C10_RenamedAmongOthers ==
    /\ lastOp.op = "rename"
    /\ Len(lastOp.before) >= 3
    /\ lastOp.before[1].id = lastOp.id
    /\ lastOp.before[1].name # lastOp.newName
    /\ registryItems[1].name = lastOp.newName
    /\ clipObjects[registryItems[1].clip].name = lastOp.newName

\* C11: renameAnimation with an id that no item has leaves the registry
\* unchanged: the item list, every item's name and every clip's name are
\* what they were before the call.
C11_MissingIdLeavesRegistry ==
    (lastOp.op = "rename" /\ lastOp.id \notin ItemIds(lastOp.before)) =>
        /\ registryItems = lastOp.before
        /\ clipObjects = lastOp.heapBefore

\* renameAnimation was called with an id no item has, on a registry that
\* holds items, with a name none of them carries.
C11_MissingIdOnFilledRegistry ==
    /\ lastOp.op = "rename"
    /\ lastOp.id = MissingId
    /\ Len(lastOp.before) >= 2
    /\ lastOp.newName = RunName
    /\ \A k \in 1..Len(lastOp.before) : lastOp.before[k].name # RunName
    /\ registryItems = lastOp.before

\* C12: the boolean renameAnimation returns tells whether the rename
\* succeeded: true when an item with the id exists, false exactly when no
\* item has it.
C12_ReturnTellsWhetherFound ==
    lastOp.op = "rename" =>
        (lastOp.returned <=> lastOp.id \in ItemIds(lastOp.before))

\* C13: the registry never holds the caller's clip objects: no sequence of
\* renameAnimation calls changes the name of a clip passed to
\* addOriginalAnimations or inside an item passed to addImportedAnimations,
\* every stored clip being an object of its own.
C13_CallerClipsNeverAliased ==
    /\ \A r \in 1..Len(CallerClips) : clipObjects[r] = CallerClips[r]
    /\ \A k \in 1..Len(registryItems) : registryItems[k].clip > Len(CallerClips)
    /\ \A i, j \in 1..Len(registryItems) :
         i # j => registryItems[i].clip # registryItems[j].clip

\* The item made from the caller's clip Walk and the imported item made
\* from the caller's clip Run were both renamed, and the caller's clips
\* still carry their names.
C13_RenamedWhileCallerKeepsName ==
    /\ lastOp.op = "rename"
    /\ lastOp.id \in ItemIds(lastOp.before)
    /\ \E k \in 1..Len(registryItems) :
         /\ registryItems[k].id = lastOp.id
         /\ clipObjects[registryItems[k].clip].name = lastOp.newName
         /\ lastOp.heapBefore[registryItems[k].clip].name # lastOp.newName
         /\ \E r \in 1..Len(CallerClips) :
              /\ CallerClips[r].name = lastOp.heapBefore[registryItems[k].clip].name
              /\ clipObjects[r].name = CallerClips[r].name

\* C14: for every scene, a null scene too, and every animation list, the
\* result of validateScene, validateAnimations and validateForExport has
\* isValid true exactly when its issues list is empty, whatever its
\* warnings hold.
C14_ValidIffNoIssues ==
    \A k \in 1..Len(validation) :
        validation[k].out.isValid <=> (validation[k].out.issues = <<>>)

\* validateForExport returned issues of the scene and of the animations
\* together with warnings, and isValid false.
C14_IssuesAndWarningsTogether ==
    /\ validation # <<>>
    /\ validation[1].fn = "validateForExport"
    /\ modelScene # 0
    /\ Len(validation[1].out.issues) >= 2
    /\ validation[1].out.warnings # <<>>
    /\ ~validateScene(objects, geometries, modelScene).isValid
    /\ ~validateAnimations(allAnimations).isValid
    /\ ~validation[1].out.isValid

\* The only defects of the scene are meshes without a material.
OnlyMaterialsMissing ==
    /\ modelScene # 0
    /\ \E k \in 1..Len(objects) : IsMesh(objects[k]) /\ objects[k].material = 0
    /\ \A k \in 1..Len(objects) :
         IsMesh(objects[k]) =>
            /\ objects[k].geometry # 0
            /\ geometries[objects[k].geometry].position
            /\ (IsSkinnedMesh(objects[k]) => objects[k].skeleton)

\* The list holds a clip with no track, or a track whose values array is
\* not times.length * valueSize long.
SomeClipBroken ==
    \E c \in 1..Len(allAnimations.clips) :
        LET clip == allAnimations.clips[c]
        IN  \/ Len(clip.tracks) = 0
            \/ \E t \in 1..Len(clip.tracks) :
                  Len(clip.tracks[t].values)
                      # Len(clip.tracks[t].times) * componentCount(clip.tracks[t])

\* C15: a mesh without a material and an empty or absent animation list
\* each add only a warning, so that validateForExport on a scene whose only
\* defect is meshes without material, with no animation, returns isValid
\* true, no issue and some warning; a clip with no track, or a track whose
\* values length differs from times.length * valueSize, adds an issue and
\* makes isValid false.
C15_WarningsAndIssuesSorted ==
    \A k \in 1..Len(validation) :
        LET out == validation[k].out
        IN  /\ ( /\ validation[k].fn = "validateForExport"
                 /\ OnlyMaterialsMissing
                 /\ Len(allAnimations.clips) = 0 )
                  => (out.isValid /\ out.issues = <<>> /\ out.warnings # <<>>)
            /\ ( /\ validation[k].fn \in {"validateAnimations", "validateForExport"}
                 /\ SomeClipBroken )
                  => (~out.isValid /\ out.issues # <<>>)

\* The bytes of the signature: the code units of headerString.
SignatureBytes == [k \in 1..Len(headerString) |-> CharCode(headerString[k]) % 256]

\* C16: the buffer the export returns starts with the signature and the
\* 4-byte little-endian version, holds every top-level node of the tree,
\* and ends with 13 zero bytes written after the last top-level node; no
\* top-level node is left out and the terminator is never skipped, whatever
\* the size of the data.
C16_SignatureNodesTerminator ==
    wrStatus # "none" =>
        /\ wrStatus = "returned"
        /\ \A k \in 1..Len(headerString) :
               ByteAt(wrBuffer, k - 1) = SignatureBytes[k]
        /\ U32At(wrBuffer, Len(headerString)) = FbxVersion
        /\ wrBuffer.length = Len(headerString) + 4 + NodesSize(fbxNodes) + FooterSize
        /\ EndOffsetsRight(wrBuffer, Len(headerString) + 4, fbxNodes)
        /\ \A k \in 1..FooterSize : ByteAt(wrBuffer, wrBuffer.length - k) = 0

\* C17: writing a tree whose serialized size exceeds the buffer first
\* allocated succeeds: the bytes returned hold the complete tree, and every
\* end offset back-patched is in its place with its value.
C17_LargeTreeWritten ==
    ( /\ wrStatus # "none"
      /\ Len(headerString) + 4 + NodesSize(fbxNodes) + FooterSize > bufferSize )
        => /\ wrStatus = "returned"
           /\ wrBuffer.length >= Len(headerString) + 4 + NodesSize(fbxNodes)
           /\ EndOffsetsRight(wrBuffer, Len(headerString) + 4, fbxNodes)


\* Whether item k of the last addImportedAnimations call is one for which
\* retargeting fails or is not tried: no source root or target skeleton, no
\* source skeleton found, a mapping below the threshold, or retargetClip
\* throwing or returning nothing.
RetargetFails(k) ==
    LET anim == lastOp.imported[k]
    IN  \/ ~anim.sourceRoot.present
        \/ ~lastOp.targetSkeleton.present
        \/ SourceSkeleton(revision, anim.sourceRoot.nodes) = {}
        \/ ~GoodMapping(revision,
               Cardinality(BuildMapping(revision,
                   CHOOSE sk \in SourceSkeleton(revision, anim.sourceRoot.nodes) : TRUE,
                   lastOp.targetSkeleton.bones, {})))
        \/ lastOp.ext.kind \in {"uncalled", "throws", "nothing"}

Called(what) == \E k \in 1..Len(exTrace) : exTrace[k] = what

\* The run got past the first check, and the scene and the clips it found
\* have an issue for validateForExport or a parent chain that loops.
HardIssueFound ==
    /\ liveBefore # <<>>
    /\ modelScene # 0 /\ modelUrl
    /\ LET before == liveBefore[1]
       IN  \/ validateForExport(before.scene.objects, before.scene.geometries,
                                modelScene, before.animations).issues # <<>>
           \/ ~validateSceneHierarchy(before.scene.objects, modelScene).isValid

\* C19: when validateForExport reports an issue or validateSceneHierarchy a
\* cycle, exportModel goes from the check straight to its end: it never
\* calls createExportScene or FBXExporter.export and makes no download;
\* a run without such an issue that ends has called createExportScene,
\* whatever the warnings.
C19_HardIssueStopsBeforeExport ==
    /\ HardIssueFound =>
         /\ exPc \in {"validate", "hierarchy", "finally", "done"}
         /\ ~Called("createExportScene")
         /\ ~Called("processAnimationsForExport")
         /\ ~Called("FBXExporter.export")
         /\ ~Called("download")
    /\ (exPc = "done" /\ modelScene # 0 /\ modelUrl /\ ~HardIssueFound) =>
         Called("createExportScene")

\* A run on a scene without meshes whose parent fields loop has ended: the
\* warning was shown, then the hierarchy check reported and stopped the run.
C19_WarnedThenStoppedByCycle ==
    /\ exPc = "done"
    /\ validation # <<>>
    /\ validation[1].out.isValid
    /\ exTrace = <<"validateForExport", "toast.warning",
                   "validateSceneHierarchy", "toast.error">>

\* C20: when an export run that reached FBXExporter.export has ended, the
\* objects, the geometries and the materials of the scene on display and
\* the clips given are as the run found them.
C20_LiveSceneAndClipsUnchanged ==
    (exPc = "done" /\ Called("FBXExporter.export")) =>
        LET before == liveBefore[1]
        IN  /\ SubSeq(objects, 1, Len(before.scene.objects)) = before.scene.objects
            /\ SubSeq(geometries, 1, Len(before.scene.geometries))
                 = before.scene.geometries
            /\ SubSeq(materials, 1, Len(before.scene.materials))
                 = before.scene.materials
            /\ allAnimations = before.animations


\* C21: whenever prefix + cleaned base is longer than maxNameLength, the
\* name generateUniqueName returns starts with the whole prefix, goes on
\* with a proper start of the cleaned base and the marker "...", and has at
\* most maxNameLength code units, also when a counter is appended.
C21_LongNameWithinLimit ==
    \A k \in 1..Len(nameCalls) :
        LET call   == nameCalls[k]
            prefix == IF call.isImported THEN importedPrefix ELSE originalPrefix
            clean  == cleanAnimationName(call.baseName)
        IN  Len(prefix \o clean) > maxNameLength =>
                /\ \E n \in 0..(Len(clean) - 1) :
                     StartsWith(call.result,
                                prefix \o SubSeq(clean, 1, n) \o <<".", ".", ".">>)
                /\ Len(call.result) <= maxNameLength


\* The code units of a string, as numbers.
CodeUnits(str) == [k \in 1..Len(str) |-> CharCode(str[k])]

\* The UTF-8 bytes of a string given by its UTF-16 code units: 1 byte below
\* 128, 2 below 2048, 4 for a surrogate pair, 3 otherwise.
RECURSIVE Utf8Bytes(_)
Utf8Bytes(units) ==
    IF units = <<>> THEN <<>>
    ELSE LET c == Head(units)
         IN  IF c < 128 THEN <<c>> \o Utf8Bytes(Tail(units))
             ELSE IF c < 2048
             THEN <<192 + (c \div 64), 128 + (c % 64)>> \o Utf8Bytes(Tail(units))
             ELSE IF /\ c >= 55296 /\ c < 56320 /\ Len(units) > 1
                     /\ units[2] >= 56320 /\ units[2] < 57344
             THEN LET cp == 65536 + (c - 55296) * 1024 + (units[2] - 56320)
                  IN  << 240 + (cp \div 262144), 128 + ((cp \div 4096) % 64),
                         128 + ((cp \div 64) % 64), 128 + (cp % 64) >>
                      \o Utf8Bytes(Tail(Tail(units)))
             ELSE << 224 + (c \div 4096), 128 + ((c \div 64) % 64), 128 + (c % 64) >>
                  \o Utf8Bytes(Tail(units))

\* The n bytes of the returned buffer from offset pos on.
BytesAt(buffer, pos, n) == [i \in 1..n |-> ByteAt(buffer, pos + i - 1)]

\* The string properties among props, the first of which starts at offset
\* pos, hold a 4-byte length equal to the number of UTF-8 bytes of the
\* string and then those bytes.
RECURSIVE StringPropertiesRight(_, _, _)
StringPropertiesRight(buffer, pos, props) ==
    \/ props = <<>>
    \/ LET prop == Head(props)
           utf8 == Utf8Bytes(CodeUnits(prop.value))
       IN  /\ prop.type = "S" =>
                 /\ U32At(buffer, pos + 1) = Len(utf8)
                 /\ BytesAt(buffer, pos + 5, Len(utf8)) = utf8
           /\ StringPropertiesRight(buffer, pos + PropertySize(prop), Tail(props))

\* The same for the names and the string properties of the nodes written
\* from offset start on, and of their descendants.
RECURSIVE StringsRight(_, _, _)
StringsRight(buffer, start, nodes) ==
    \/ nodes = <<>>
    \/ LET node == Head(nodes)
           utf8 == Utf8Bytes(CodeUnits(node.name))
           propStart == start + 13 + Len(node.name)
       IN  /\ ByteAt(buffer, start + 12) = Len(utf8)
           /\ BytesAt(buffer, start + 13, Len(utf8)) = utf8
           /\ StringPropertiesRight(buffer, propStart, node.properties)
           /\ StringsRight(buffer, propStart + PropertiesSize(node.properties),
                           node.children)
           /\ StringsRight(buffer, start + NodeSize(node), Tail(nodes))

\* C22: every node name and every string property is written as the UTF-8
\* bytes of the string, without terminator, after a length field that
\* counts those bytes, for strings with non-ASCII characters too.
C22_StringsWrittenAsUtf8 ==
    wrStatus = "returned" =>
        StringsRight(wrBuffer, Len(headerString) + 4,
                     NodesWritten(fbxNodes, Len(headerString) + 4))


\* The properties props, the first of which is written at offset pos, each
\* with the offset of its type byte.
RECURSIVE PlacedProperties(_, _)
PlacedProperties(pos, props) ==
    IF props = <<>> THEN <<>>
    ELSE <<[pos |-> pos, prop |-> Head(props)]>>
         \o PlacedProperties(pos + PropertySize(Head(props)), Tail(props))

\* The properties of the nodes written from offset start on and of their
\* descendants, each with its offset.
RECURSIVE WrittenProperties(_, _)
WrittenProperties(start, nodes) ==
    IF nodes = <<>> THEN <<>>
    ELSE LET node      == Head(nodes)
             propStart == start + 13 + Len(node.name)
         IN  PlacedProperties(propStart, node.properties)
             \o WrittenProperties(propStart + PropertiesSize(node.properties),
                                  node.children)
             \o WrittenProperties(start + NodeSize(node), Tail(nodes))

\* The properties the call wrote.
PropertiesInBuffer ==
    WrittenProperties(Len(headerString) + 4,
                      NodesWritten(fbxNodes, Len(headerString) + 4))

\* The 8 bytes of the 64-bit two's complement of 65536 * q + r, low byte
\* first.
Int64Bytes(n) == LittleEndian(n.r, 2) \o LittleEndian(n.q, 6)

\* C23: an 'L' property is written as the 8 little-endian bytes of the
\* two's complement of its value, the low 32 bits first and then the high
\* 32 bits, for negative values and for values of 2^31 and more.
C23_Int64LittleEndian ==
    wrStatus = "returned" =>
        \A k \in 1..Len(PropertiesInBuffer) :
            LET placed == PropertiesInBuffer[k]
            IN  placed.prop.type = "L" =>
                    BytesAt(wrBuffer, placed.pos + 1, 8)
                        = Int64Bytes(NumberOf(placed.prop))


\* The size the record layout gives a property: the type byte and then 4
\* bytes for an int32, 8 for an int64 or a double, 4 and the characters for
\* a string, 12 and the elements for an array.
EncodedSize(prop) ==
    1 + (CASE prop.type = "I" -> 4
           [] prop.type = "L" -> 8
           [] prop.type = "D" -> 8
           [] prop.type = "S" -> 4 + Len(prop.value)
           [] prop.type = "d" -> 12 + 8 * ArrayLength(prop)
           [] prop.type = "i" -> 12 + 4 * ArrayLength(prop))

RECURSIVE EncodedSizes(_)
EncodedSizes(props) ==
    IF props = <<>> THEN 0
    ELSE EncodedSize(Head(props)) + EncodedSizes(Tail(props))

\* Every node of the list written from offset start on, and every
\* descendant, holds the number of its properties in bytes 4..7 and the sum
\* of their encoded sizes in bytes 8..11.
RECURSIVE PropertyBlocksRight(_, _, _)
PropertyBlocksRight(buffer, start, nodes) ==
    \/ nodes = <<>>
    \/ LET node == Head(nodes)
       IN  /\ U32At(buffer, start + 4) = Len(node.properties)
           /\ U32At(buffer, start + 8) = EncodedSizes(node.properties)
           /\ PropertyBlocksRight(buffer,
                  start + 13 + Len(node.name) + PropertiesSize(node.properties),
                  node.children)
           /\ PropertyBlocksRight(buffer, start + NodeSize(node), Tail(nodes))

\* The element size of an array property.
ElementSize(prop) == IF prop.type = "d" THEN 8 ELSE 4

\* An array property written at pos holds its element count, the encoding
\* flag 0 and the byte length of its elements after the type byte.
ArrayHeaderRight(buffer, placed) ==
    placed.prop.type \in {"d", "i"} =>
        /\ U32At(buffer, placed.pos + 1) = ArrayLength(placed.prop)
        /\ U32At(buffer, placed.pos + 5) = 0
        /\ U32At(buffer, placed.pos + 9)
             = ArrayLength(placed.prop) * ElementSize(placed.prop)

\* C24: for every node written, the property list length slot holds the sum
\* of the encoded sizes of its properties (a type byte, then 4 bytes for an
\* int32, 8 for an int64 or a double, 4 + length for a string, 12 + 8n or
\* 12 + 4n for an array of n elements), the property count slot holds the
\* number of properties, and every array holds its count, the encoding flag
\* 0 and the byte length n times the element size.
C24_PropertyListLengthIsSumOfSizes ==
    wrStatus = "returned" =>
        /\ PropertyBlocksRight(wrBuffer, Len(headerString) + 4,
                               NodesWritten(fbxNodes, Len(headerString) + 4))
        /\ \A k \in 1..Len(PropertiesInBuffer) :
               /\ ByteAt(wrBuffer, PropertiesInBuffer[k].pos)
                    = CharCode(PropertiesInBuffer[k].prop.type)
               /\ ArrayHeaderRight(wrBuffer, PropertiesInBuffer[k])

\* Node A with an array of 2 doubles and an array of 2 int32 was written:
\* 2 properties, 29 + 21 bytes.
C24_ArraysNodeWritten ==
    /\ wrStatus = "returned"
    /\ fbxNodes = <<Node(<<"A">>, <<PropDs(<<0, 100>>), PropIs(<<7, -1>>)>>, <<>>)>>
    /\ U32At(wrBuffer, 31) = 2
    /\ U32At(wrBuffer, 35) = 50
    /\ U32At(wrBuffer, 41 + 1) = 2
    /\ U32At(wrBuffer, 41 + 9) = 16
    /\ U32At(wrBuffer, 41 + 29 + 9) = 8


\* The ids of the items, in list order.
IdsInOrder(items) == [k \in 1..Len(items) |-> items[k].id]

\* C25: in every state the registry's operations reach, every native item
\* precedes every imported item, getAnimationNames and getAllClips return
\* the names and the clips of the items in list order and as many as there
\* are items, and renameAnimation leaves every item at its position.
C25_NativeFirstAndListOrder ==
    /\ \A i, j \in 1..Len(registryItems) :
         (registryItems[i].isImported /\ ~registryItems[j].isImported) => j < i
    /\ Len(getAnimationNames(registryItems)) = Len(registryItems)
    /\ Len(getAllClips(registryItems)) = Len(registryItems)
    /\ \A k \in 1..Len(registryItems) :
         /\ getAnimationNames(registryItems)[k] = registryItems[k].name
         /\ getAllClips(registryItems)[k] = registryItems[k].clip
    /\ lastOp.op = "rename" =>
         IdsInOrder(registryItems) = IdsInOrder(lastOp.before)

\* addOriginalAnimations was called with two clips on a registry that held
\* imported items only, and the two native items are in front of them.
C25_NativeAddedAfterImported ==
    /\ lastOp.op = "addOriginal"
    /\ Len(lastOp.clips) = 2
    /\ Len(lastOp.before) >= 1
    /\ \A k \in 1..Len(lastOp.before) : lastOp.before[k].isImported
    /\ Len(registryItems) = 2 + Len(lastOp.before)
    /\ ~registryItems[1].isImported /\ ~registryItems[2].isImported
    /\ registryItems[3].isImported


\* C26: whenever retargetAnimation returns a clip that the external
\* routine produced, the clip has the source clip's name, none of its tracks
\* has a name ending in Hips.quaternion, mixamorig:Hips.quaternion or
\* mixamorigHips.quaternion, and the other tracks the routine returned are
\* all there in their order.
C26_RetargetedNamedAndRootRotationDropped ==
    \A k \in 1..Len(rtResult) :
        LET out == rtResult[k].out
        IN  out.retargeted =>
                /\ out.clip.name = rtInput.sourceClip.name
                /\ \A t \in 1..Len(out.clip.tracks) :
                     \A r \in 1..Len(rootNames) :
                        ~EndsWith(out.clip.tracks[t].name,
                                  rootNames[r] \o DotQuaternion)
                /\ out.clip.tracks
                     = SelectSeq(rtResult[k].ext.tracks,
                                 LAMBDA track : ~IsRootQuat(track))


\* Whether the walk from ref along the parent fields comes to an object
\* without parent within the given number of steps.
RECURSIVE ChainEnds(_, _, _)
ChainEnds(objs, ref, steps) ==
    \/ ref = 0
    \/ steps > 0 /\ ChainEnds(objs, objs[ref].parent, steps - 1)

\* The parent chain of the object revisits an object: it has no end.
ChainRevisits(objs, ref) == ~ChainEnds(objs, objs[ref].parent, Len(objs))

\* The objects of the hierarchy below the scene whose parent chain revisits
\* an object.
ObjectsOnLoops ==
    {ref \in 1..Len(objects) : ChainRevisits(objects, ref)}

\* C27: validateSceneHierarchy ends for every hierarchy, one with a parent
\* chain that loops too, and returns isValid false with one issue for each
\* object whose parent chain revisits an object, and isValid true with no
\* issue when no chain does.
C27_LoopsReportedAsIssues ==
    \A k \in 1..Len(validation) :
        validation[k].fn = "validateSceneHierarchy" =>
            /\ ~validation[k].threw
            /\ Len(validation[k].out) = 1
            /\ LET result == validation[k].out[1]
               IN  /\ result.isValid <=> (ObjectsOnLoops = {})
                   /\ Len(result.issues) = Cardinality(ObjectsOnLoops)


\* How many times what is in the list of the calls made and toasts shown.
Count(what) == Cardinality({k \in 1..Len(exTrace) : exTrace[k] = what})

\* C28: every run of exportModel that sets isExporting to true sets it back
\* to false later, on each path, and has then reported one outcome: one
\* error message or one success message, not both and not none.
C28_ExportingResetAndOneOutcome ==
    /\ isExporting ~> ~isExporting
    /\ [](("validateForExport" \in Range(exTrace) /\ exPc = "done") =>
             Count("toast.error") + Count("toast.success") = 1)


\* The tracks of a clip the sanitation leaves: those with a name and a key.
Survivors(clip) ==
    SelectSeq(clip.tracks, LAMBDA track : track.name # <<>> /\ Len(track.times) > 0)

\* For each clip given, in order, the name its copy gets and the names of
\* the tracks left to it.
ExpectedOfInput ==
    [ c \in 1..Len(animations) |->
        [ name   |-> IF Trim(animations[c].name) = <<>>
                     THEN AnimationUnderscore \o NumberToString(c)
                     ELSE animations[c].name,
          tracks |-> [t \in 1..Len(Survivors(animations[c])) |->
                         Survivors(animations[c])[t].name] ] ]

\* C29: every clip processAnimationsForExport returns has at least one
\* track and a name that is not blank; the clips returned are the copies of
\* the clips given that keep a track, in the order given, a clip that lost
\* all its tracks being absent; and the clips given and their tracks are
\* left as they were.
C29_ReturnedClipsHaveTracksAndNames ==
    /\ [](procStatus = "returned" =>
            /\ \A k \in 1..Len(procClips) :
                 /\ Len(procClips[k].tracks) >= 1
                 /\ Trim(procClips[k].name) # <<>>
            /\ [ k \in 1..Len(procClips) |->
                   [ name   |-> procClips[k].name,
                     tracks |-> [t \in 1..Len(procClips[k].tracks) |->
                                    procClips[k].tracks[t].name] ] ]
                 = SelectSeq(ExpectedOfInput, LAMBDA e : e.tracks # <<>>))
    /\ [][animations' = animations]_vars

\* A call with two clips returned the second alone, under its name: the
\* first, without a name, had tracks and lost them all.
C29_FirstClipLostItsTracks ==
    /\ procStatus = "returned"
    /\ Len(animations) = 2
    /\ animations[1].name = <<>>
    /\ Len(animations[1].tracks) >= 1
    /\ Len(procClips) = 1
    /\ procClips[1].name = Walk
    /\ Len(procClips[1].tracks) = 1


\* The ids of the objects in the Objects section built, in order.
EmittedIds ==
    [k \in 1..Len(fbxNodes[1].children) |->
        fbxNodes[1].children[k].properties[1].value]

\* C30: in the node tree built for export the ids of the objects of the
\* Objects section are pairwise distinct, and every id that is child or
\* parent in a C record of the Connections section is 0 or the id of an
\* object of the Objects section, for scenes with non-mesh nodes and meshes
\* without positions too.
C30_IdsDistinctAndConnectionsResolve ==
    fbxNodes # <<>> =>
        /\ \A i, j \in 1..Len(EmittedIds) :
             i # j => EmittedIds[i] # EmittedIds[j]
        /\ \A k \in 1..Len(fbxNodes[2].children) :
             \A p \in 2..3 :
                \/ fbxNodes[2].children[k].properties[p].value = 0
                \/ \E e \in 1..Len(EmittedIds) :
                      EmittedIds[e] = fbxNodes[2].children[k].properties[p].value

=============================================================================
